---------------------------- MODULE Spec2Model ----------------------------
(***************************************************************************)
(* sdlSpeedometer: the NMEA codec (nmeaChecksum, getf), the three source   *)
(* collectors (threadSerial, i2cCollector, nmeaNetCollector), the shared   *)
(* blackboard cnmea and the rendering consumer that reads it.              *)
(*                                                                         *)
(* C strings are sequences of byte codes (the terminating NUL and the zero *)
(* fill of the buffers are implicit: a read past the end yields 0).  C     *)
(* indexes are 0-based, sequences 1-based: C's str[i] is str[i+1] here.    *)
(***************************************************************************)
EXTENDS Integers, Sequences, FiniteSets, TLC

VARIABLES
    c_pc,       \* codec harness: "idle", or the function that was called
    c_str,      \* its string argument
    c_pos,      \* getf's pos argument
    c_coord,    \* dms2dd's coordinates argument, a whole number DDDMM
    c_res,      \* what the call returned
    out,        \* getf: its static char out[200], the text up to its NUL
    caller,     \* the two collectors inside getf: where each is, its arguments,
                \* and what it copied from the returned pointer
    threads,    \* every collector thread openSDL2 has created: where it is and
                \* the numThreads it has loaded for its ++ or --
    d_pc,       \* doSubtask: where main is in it, "page" outside of it
    runners,    \* its local runners[]
    gen,        \* history: how many times openSDL2 has run
    slave,      \* the device address selected on the bus handle i2cFile
    readers,    \* the two threads that read the bus: where each is, the
                \* address it selected and the one its block came from
    idx,        \* the indexing of a collector's buffer after one read: what
                \* was read, and the lowest and highest index touched
    curHeading, \* i2cReadHdm: its static curHeading, in tenths of a degree
    sampleCnt,  \* i2cReadHdm: its static sampleCnt
    h_ret,      \* what the last call of i2cReadHdm returned, in tenths
    h_new,      \* history: the heading that call computed, -1 if it did not
    h_acc,      \* history: a computed heading has been accepted
    now,        \* time(NULL), in seconds
    cnmea,      \* the blackboard
    configParams,   \* run flags, onHold, numThreads, netStat
    n_pc,       \* nmeaNetCollector: where the thread is
    retry, rretry, sretry, ts,      \* its locals
    n_wake,     \* when its current delay or poll timeout ends
    nmeastr_p2, \* its static second buffer
    clientSocket,   \* TRUE while it holds an open socket
    sock,       \* data the server has sent and the collector not yet received
    s_pc,       \* threadSerial: where the thread is
    s_wake,     \* when its current delay ends
    tty,        \* lines the GPS device has sent and read() not yet returned
    i_pc,       \* i2cCollector: where the thread is
    i_retry, i_ct, i_hdm,           \* its locals retry, ct, hdm
    i_wake,     \* when its current delay ends
    i_seen,     \* the hdm_ts its last check read
    m_pc,       \* threadMonstat: where the thread is
    m_wake,     \* when its delay ends
    nextPage,   \* the page main dispatches to
    u_pc,       \* the loop of that page: where it is
    u_wake,     \* when its current delay ends
    fails,      \* setUTCtime's static counter
    budget,     \* events the talkers and the operator may still produce
    netLog,     \* history: every line nmeaNetCollector handed to nmeaChecksum
    recvLog,    \* history: every chunk SDLNet_TCP_Recv returned
    lastPos,    \* history: the collector that wrote the position last
    rejected,   \* history: the collectors that have dropped a line so far
    hdmAt,      \* history: when an NMEA collector wrote the heading last
    heardAt,    \* history: when an RMC, a DPT, an MWV sentence was handled last
    k_pc,       \* doCalibration: where it is, "off" outside of it
    progress,   \* its local progress
    k_touch,    \* the event the operator has sent during this run, or "none"
    k_event,    \* its event.type
    doRun_run,  \* its doRun.run
    cal_pc,     \* threadCalibrator: "off", "run" or "done"
    magMax, magMin,     \* its six extrema, per axis
    cal_seen,   \* history: the samples it has read
    sqlConfig,  \* the file SQLCONFIG: <<>> if there is none, or <<statement>>
    chip,       \* i2cSpeedometer.c: the variant i2cinit detected
    conn, connOk, update, doUpdate, calib,  \* i2cCollector: its locals
    dbCalib     \* the configuration database

codecVars == <<c_pc, c_str, c_pos, c_coord, c_res, out, caller>>
imuVars == <<curHeading, sampleCnt, h_ret, h_new, h_acc>>
lifeVars == <<threads, d_pc, runners, gen>>
busVars == <<slave, readers, idx>>
libVars == <<codecVars, imuVars, lifeVars, busVars>>
netVars == <<n_pc, retry, rretry, sretry, ts, n_wake, nmeastr_p2, clientSocket>>
serialVars == <<s_pc, s_wake>>
i2cVars == <<i_pc, i_retry, i_ct, i_hdm, i_wake, i_seen>>
monVars == <<m_pc, m_wake>>
uiVars == <<nextPage, u_pc, u_wake, fails>>
histVars == <<netLog, recvLog, lastPos, rejected, hdmAt, heardAt>>
calRun == <<k_pc, progress, k_touch, k_event, doRun_run, cal_pc, magMax, magMin, cal_seen>>
calVars == <<calRun, sqlConfig>>
dbVars == <<chip, conn, connOk, update, doUpdate, calib, dbCalib>>
progVars == <<now, cnmea, configParams, netVars, sock, serialVars, tty, i2cVars,
              monVars, uiVars, budget, histVars, calVars, dbVars>>
vars == <<libVars, progVars>>

---------------------------------------------------------------------------
(* Bytes *)

Ascii ==
    ("$" :> 36) @@ ("!" :> 33) @@ ("*" :> 42) @@ ("," :> 44) @@ ("." :> 46) @@
    ("-" :> 45) @@ ("+" :> 43) @@ (" " :> 32) @@ ("cr" :> 13) @@ ("lf" :> 10) @@
    ("0" :> 48) @@ ("1" :> 49) @@ ("2" :> 50) @@ ("3" :> 51) @@ ("4" :> 52) @@
    ("5" :> 53) @@ ("6" :> 54) @@ ("7" :> 55) @@ ("8" :> 56) @@ ("9" :> 57) @@
    ("A" :> 65) @@ ("B" :> 66) @@ ("C" :> 67) @@ ("D" :> 68) @@ ("E" :> 69) @@
    ("F" :> 70) @@ ("G" :> 71) @@ ("H" :> 72) @@ ("L" :> 76) @@ ("M" :> 77) @@
    ("N" :> 78) @@ ("P" :> 80) @@ ("R" :> 82) @@ ("T" :> 84) @@ ("V" :> 86) @@
    ("W" :> 87) @@ ("a" :> 97) @@ ("x" :> 120)

\* The bytes of a text given as a tuple of one-character strings.
B(t) == [i \in 1..Len(t) |-> Ascii[t[i]]]

Bit(x, k) == (x \div (2 ^ k)) % 2

MinOf(S) == CHOOSE k \in S : \A j \in S : k <= j
MaxOf(S) == CHOOSE k \in S : \A j \in S : k >= j

\* str[i] of a zero-filled buffer holding s (0-based i).
At(s, i) == IF i >= 0 /\ i < Len(s) THEN s[i + 1] ELSE 0

\* The C string that starts at &s[i]: up to the first NUL.
StrEnd(s, i) == MinOf({k \in i..Len(s) : At(s, k) = 0})
CStr(s, i) == IF i >= Len(s) THEN <<>> ELSE SubSeq(s, i + 1, StrEnd(s, i))

\* The XOR of the bytes s[a..b].
PlainXorBit(s, a, b, k) == Cardinality({i \in a..b : Bit(s[i], k) = 1}) % 2
PlainXor(s, a, b) ==
      PlainXorBit(s, a, b, 0)      + PlainXorBit(s, a, b, 1) * 2
    + PlainXorBit(s, a, b, 2) * 4  + PlainXorBit(s, a, b, 3) * 8
    + PlainXorBit(s, a, b, 4) * 16 + PlainXorBit(s, a, b, 5) * 32
    + PlainXorBit(s, a, b, 6) * 64 + PlainXorBit(s, a, b, 7) * 128

---------------------------------------------------------------------------
(* strtol(p, NULL, 16) cast to uint8_t: white space, a sign, an optional   *)
(* 0x, then the longest run of hex digits; the value is kept modulo 256,   *)
(* which is what the cast leaves of it (no line here reaches LONG_MAX).    *)

HexVal(c) ==
    IF c >= 48 /\ c <= 57 THEN c - 48
    ELSE IF c >= 65 /\ c <= 70 THEN c - 55
    ELSE IF c >= 97 /\ c <= 102 THEN c - 87
    ELSE -1

IsSpace(c) == c = 32 \/ (c >= 9 /\ c <= 13)

RECURSIVE SkipSpace(_, _)
SkipSpace(s, i) == IF IsSpace(At(s, i)) THEN SkipSpace(s, i + 1) ELSE i

RECURSIVE HexRun(_, _, _)
HexRun(s, i, acc) ==
    IF HexVal(At(s, i)) < 0 THEN acc
    ELSE HexRun(s, i + 1, (acc * 16 + HexVal(At(s, i))) % 256)

\* Past a sign; past "0x" when a hex digit follows it.
SignSkip(s, i) == IF At(s, i) \in {43, 45} THEN i + 1 ELSE i
HexStart(s, i) ==
    IF At(s, i) = 48 /\ At(s, i + 1) \in {120, 88} /\ HexVal(At(s, i + 2)) >= 0
    THEN i + 2 ELSE i
Wrap8(neg, v) == IF neg THEN (256 - v) % 256 ELSE v

strtolAt(s, i0) == Wrap8(At(s, i0) = 45, HexRun(s, HexStart(s, SignSkip(s, i0)), 0))
strtol16(s) == strtolAt(s, SkipSpace(s, 0))

---------------------------------------------------------------------------
(* nmeaChecksum(str_p1, str_p2, cnt).  Result: rv (0 accept, 1 reject),    *)
(* p1 (str_p1 as left behind: cut at the first CR or LF), p2 (what was     *)
(* copied to str_p2; hasP2 says whether str_p2 was given, i.e. not NULL).  *)

\* The i at which the scan loop stops: the first CR or LF, or cnt.
LineEnd(s, cnt) == MinOf({k \in 0..cnt : k = cnt \/ At(s, k) \in {13, 10}})

\* cs after the scan loop: one past the last '*' seen before it stopped.
StarScan(s, stop) == MaxOf({-1} \cup {k \in 0..(stop - 1) : At(s, k) = 42}) + 1

\* checksum ^= str_p1[i] over i < stop, '$' and '!' skipped.  Bit k of the
\* XOR of a run of bytes is the parity of the bytes that have bit k set.
XorBit(s, stop, k) ==
    Cardinality({i \in 0..(stop - 1) :
                    At(s, i) \notin {36, 33} /\ Bit(At(s, i), k) = 1}) % 2

XorSpan(s, stop) ==
      XorBit(s, stop, 0)      + XorBit(s, stop, 1) * 2
    + XorBit(s, stop, 2) * 4  + XorBit(s, stop, 3) * 8
    + XorBit(s, stop, 4) * 16 + XorBit(s, stop, 5) * 32
    + XorBit(s, stop, 6) * 64 + XorBit(s, stop, 7) * 128

\* After the scan loop, line being str_p1 as the loop left it.
checksumOf(line, cs) ==
    IF cs = 0 \/ XorSpan(line, cs - 1) # strtol16(CStr(line, cs)) THEN 1 ELSE 0

\* A variant that forgets the rest of the buffer when the line is rejected;
\* the C10 property tells it from nmeaChecksum.
checksumPartsLossy(line, rest, cs) ==
    [ rv |-> checksumOf(line, cs), p1 |-> line,
      p2 |-> IF checksumOf(line, cs) = 0 THEN rest ELSE <<>> ]

checksumParts(line, rest, cs) ==
    [ rv |-> checksumOf(line, cs), p1 |-> line, p2 |-> rest ]

\* The scan loop stopped at e: at a CR or LF (e < cnt) the line is cut there
\* and what follows the byte after it is copied to str_p2.
checksumCut(str_p1, hasP2, cnt, e) ==
    checksumParts(IF e < cnt THEN SubSeq(str_p1, 1, e) ELSE str_p1,
                  IF e < cnt /\ hasP2 THEN CStr(str_p1, e + 2) ELSE <<>>,
                  StarScan(str_p1, e))

nmeaChecksum(str_p1, hasP2, cnt) == checksumCut(str_p1, hasP2, cnt, LineEnd(str_p1, cnt))

---------------------------------------------------------------------------
(* getf(pos, str).  The loop counts commas in npos and acts at the one    *)
(* with npos == pos - 1, the pos-th comma: it appends the rest of str to   *)
(* the cleared static buffer out[200] (strcat) and cuts out at its first   *)
(* comma.  With no comma left the loop runs on to the end of str without   *)
(* another match, npos being past pos.  pos < 1 never matches.             *)

OutSize == 200

FirstOr(S, d) == IF S = {} THEN d ELSE MinOf(S)

\* Index of the first ',' of s at or after 0-based i, or -1.
CommaFrom(s, i) == FirstOr({k \in i..(Len(s) - 1) : At(s, k) = 44}, -1)

\* Index of the n-th ',' of s counted from 0-based i, or -1; k is the first.
RECURSIVE NthComma(_, _, _)
RECURSIVE NthFrom(_, _, _)
NthFrom(s, n, k) ==
    IF k < 0 \/ n < 1 THEN -1
    ELSE IF n = 1 THEN k
    ELSE NthComma(s, n - 1, k + 1)
NthComma(s, n, i) == NthFrom(s, n, CommaFrom(s, i))

\* out after strcat(out, &str[++i]) has put cat there: cut at its first ','.
getfCut(cat, k) == IF k >= 0 THEN SubSeq(cat, 1, k) ELSE cat
getfCat(cat) == getfCut(cat, CommaFrom(cat, 0))
\* &str[++i] at the comma found, nothing when the field does not exist.
getfTail(str, at) == IF at < 0 THEN <<>> ELSE CStr(str, at + 1)
getfAt(str, at) == IF at < 0 THEN <<>> ELSE getfCat(CStr(str, at + 1))

getf(pos, str) == getfAt(str, NthComma(str, pos, 0))

\* What strcat writes into out in that call: the bytes and the NUL.
getfWrittenAt(str, at) == IF at < 0 THEN 0 ELSE Len(CStr(str, at + 1)) + 1
getfWritten(pos, str) == getfWrittenAt(str, NthComma(str, pos, 0))

\* The outcomes of a call: the text, or, when strcat runs past the end of
\* out (undefined behaviour), whatever the build makes of it.
Fault == <<-1>>
getfOutcomes(pos, str) ==
    IF getfWritten(pos, str) > OutSize THEN {getf(pos, str), Fault}
    ELSE {getf(pos, str)}

---------------------------------------------------------------------------
(* atof and atoi on the fields of a sentence.  A float is kept in tenths,  *)
(* cut after its first decimal, which is exact for the fields the talkers  *)
(* of this model send (at most one decimal, no exponent).                  *)

DigitsEnd(s, i) == MinOf({k \in i..Len(s) : At(s, k) < 48 \/ At(s, k) > 57})

RECURSIVE DecVal(_, _, _)
DecVal(s, a, b) == IF b <= a THEN 0 ELSE DecVal(s, a, b - 1) * 10 + (At(s, b - 1) - 48)

Signed(neg, v) == IF neg THEN 0 - v ELSE v

atoiAt(s, i0) == Signed(At(s, i0) = 45,
                        DecVal(s, SignSkip(s, i0), DigitsEnd(s, SignSkip(s, i0))))
atoi(s) == atoiAt(s, SkipSpace(s, 0))

\* The first decimal after the digits that end at e1.
Tenth(s, e1) ==
    IF At(s, e1) = 46 /\ At(s, e1 + 1) >= 48 /\ At(s, e1 + 1) <= 57
    THEN At(s, e1 + 1) - 48 ELSE 0
atofEnd(s, neg, i1, e1) == Signed(neg, DecVal(s, i1, e1) * 10 + Tenth(s, e1))
atofAt(s, i0) == atofEnd(s, At(s, i0) = 45, SignSkip(s, i0), DigitsEnd(s, SignSkip(s, i0)))
atof(s) == atofAt(s, SkipSpace(s, 0))

\* dms2dd: coordinates is a whole number in NMEA's DDDMM form, val the hint
\* string; the result is in minutes of arc (sixtieths of a degree), so that
\* c = b + minutes/60 stays an integer.  b = coordinates/100 converts to int
\* towards zero.
MAX_LONGITUDE == 180
MAX_LATITUDE == 90
dmsInt(coordinates) ==
    IF coordinates < 0 THEN 0 - ((0 - coordinates) \div 100) ELSE coordinates \div 100
dmsDecimal(coordinates, b) == (coordinates - 100 * b) + 60 * b
dms2dd(coordinates, val) ==
    IF At(val, 0) = 109 /\ (coordinates < 0 /\ coordinates > MAX_LATITUDE) THEN 0
    ELSE IF At(val, 0) = 112 /\ (coordinates < 0 /\ coordinates > MAX_LONGITUDE) THEN 0
    ELSE dmsDecimal(coordinates, dmsInt(coordinates))

---------------------------------------------------------------------------
(* The blackboard cnmea (collected_nmea), zeroed by main.                  *)

S_TIMEOUT == 4
HalfTimeout == S_TIMEOUT \div 2     \* S_TIMEOUT/2 in int arithmetic
TRGPS == 25                         \* 2.5 knots, in tenths

cnmeaZero ==
    [ rmc |-> 0, time |-> <<>>, date |-> <<>>, rmc_tm_set |-> 0, rmc_ts |-> 0,
      rmc_gps_ts |-> 0, roll |-> 0, roll_i2cts |-> 0, stw |-> 0, stw_ts |-> 0,
      dbt |-> 0, dbt_ts |-> 0, mtw |-> 0, mtw_ts |-> 0, hdm |-> 0, hdm_ts |-> 0,
      hdm_i2cts |-> 0, vwra |-> 0, vwta |-> 0, vwr_ts |-> 0, vwt_ts |-> 0,
      vwrd |-> 0, vwrs |-> 0, vwts |-> 0, gll |-> <<>>, gll_ts |-> 0,
      glo |-> <<>>, glns |-> <<>>, glne |-> <<>>, net_ts |-> 0,
      volt |-> 0, volt_bank |-> 0, volt_ts |-> 0, curr |-> 0, curr_bank |-> 0,
      curr_ts |-> 0, temp |-> 0, temp_loc |-> 0, temp_ts |-> 0,
      kWhp |-> 0, kWhn |-> 0, startTime |-> 0 ]

\* NMPARSE(str, nsent): !strncmp(nsent, &str[3], strlen(nsent))
NMPARSE(str, nsent) == \A k \in 1..Len(nsent) : At(str, 2 + k) = nsent[k]

RMC == <<82, 77, 67>>
GLL == <<71, 76, 76>>
VTG == <<86, 84, 71>>
HDT == <<72, 68, 84>>
HDG == <<72, 68, 71>>
HDM == <<72, 68, 77>>
VHW == <<86, 72, 87>>
DPT == <<68, 80, 84>>
DBT == <<68, 66, 84>>
MTW == <<77, 84, 87>>
MWV == <<77, 87, 86>>
VWR == <<86, 87, 82>>
ENV == <<69, 78, 86>>

\* The speed and track part of the RMC branch.
rmcSpeed(c, ct, sog, hdm) ==
    [c EXCEPT !.rmc_gps_ts = ct, !.rmc = sog,
              !.rmc_ts = IF sog >= TRGPS THEN ct ELSE @,
              !.hdm    = IF sog >= TRGPS /\ hdm # 0 THEN hdm ELSE @,
              !.hdm_ts = IF sog >= TRGPS /\ hdm # 0 THEN ct ELSE @]

rmcPos(c, str) ==
    [c EXCEPT !.gll = getf(3, str), !.glo = getf(5, str),
              !.glns = getf(4, str), !.glne = getf(6, str)]

rmcTime(c, str) ==
    IF c.rmc_tm_set = 0
    THEN [c EXCEPT !.time = getf(1, str), !.date = getf(9, str), !.rmc_tm_set = 1]
    ELSE c

\* The RMC branch, the same in both collectors up to its last statements.
rmcCommon(c, str, ct) ==
    rmcTime(rmcPos(rmcSpeed(c, ct, atof(getf(7, str)), atof(getf(8, str))), str), str)

\* if (strlen(cnmea.gll)) cnmea.gll_ts = ct;
rmcStamp(c, ct) == IF Len(c.gll) > 0 THEN [c EXCEPT !.gll_ts = ct] ELSE c

\* The VTG branch body, the same in both collectors (it sets net_ts in both).
vtgSpeed(c, ct, sog, hdm) ==
    [c EXCEPT !.rmc = sog,
              !.net_ts = IF sog >= TRGPS THEN ct ELSE @,
              !.rmc_ts = IF sog >= TRGPS THEN ct ELSE @,
              !.hdm    = IF sog >= TRGPS /\ hdm # 0 THEN hdm ELSE @,
              !.hdm_ts = IF sog >= TRGPS /\ hdm # 0 THEN ct ELSE @]
vtgBody(c, str, ct) == vtgSpeed(c, ct, atof(getf(5, str)), atof(getf(1, str)))

\* threadSerial: what one accepted sentence does to the blackboard.
serialParse(c, buffer, ct) ==
    IF NMPARSE(buffer, RMC)
    THEN rmcStamp(rmcCommon(c, buffer, ct), ct)
    ELSE IF ct - c.gll_ts > HalfTimeout /\ NMPARSE(buffer, GLL)
    THEN [c EXCEPT !.gll = getf(1, buffer), !.glo = getf(3, buffer),
                   !.glns = getf(2, buffer), !.glne = getf(4, buffer),
                   !.gll_ts = ct]
    ELSE IF ct - c.rmc_ts > HalfTimeout /\ NMPARSE(buffer, VTG)
    THEN vtgBody(c, buffer, ct)
    ELSE IF ct - c.rmc_ts > HalfTimeout
            /\ (NMPARSE(buffer, HDT) \/ NMPARSE(buffer, HDG) \/ NMPARSE(buffer, HDM))
    THEN [c EXCEPT !.hdm = atof(getf(1, buffer)), !.hdm_ts = ct]
    ELSE c

\* kn to m/s: x / 1.94, in tenths, cut.
Kn2ms(x) == (x * 100) \div 194

\* strncmp(a, b, 1) for a one-character b: the difference of the first bytes.
strncmp1(a, b) == At(a, 0) - b

mwvSet(c, tm, isRel, isTrue, a, v) ==
    IF isRel
    THEN [c EXCEPT !.vwra = IF a > 1800 THEN 3600 - a ELSE a, !.vwrs = v,
                   !.vwrd = IF a > 1800 THEN 1 ELSE 0, !.vwr_ts = tm]
    ELSE IF isTrue
    THEN [c EXCEPT !.vwta = a, !.vwts = v, !.vwt_ts = tm]
    ELSE c
mwvBody(c, str, tm) ==
    mwvSet(c, tm,
           strncmp1(getf(2, str), 82) + strncmp1(getf(4, str), 78) = 0,
           strncmp1(getf(2, str), 84) + strncmp1(getf(4, str), 78) = 0,
           atof(getf(1, str)), Kn2ms(atof(getf(3, str))))

envSet(c, str, tm, volt, temp) ==
    [c EXCEPT !.volt = volt, !.volt_bank = atoi(getf(2, str)),
              !.volt_ts = IF volt >= 80 THEN tm ELSE @,
              !.curr = atof(getf(3, str)), !.curr_bank = atoi(getf(4, str)),
              !.curr_ts = tm,
              !.temp = temp, !.temp_loc = atoi(getf(6, str)),
              !.temp_ts = IF temp # 1000 THEN tm ELSE @,
              !.kWhp = atof(getf(7, str)), !.kWhn = atof(getf(8, str)),
              !.startTime = atoi(getf(9, str))]
envBody(c, str, tm) == envSet(c, str, tm, atof(getf(1, str)), atof(getf(5, str)))

vhwSet(c, tm, stw) == [c EXCEPT !.stw = stw, !.stw_ts = IF stw # 0 THEN tm ELSE @]

\* nmeaNetCollector: what one accepted sentence does to the blackboard.
netParse(c, str, tm) ==
    IF NMPARSE(str, RMC)
    THEN [rmcCommon(c, str, tm) EXCEPT !.net_ts = tm, !.gll_ts = tm]
    ELSE IF tm - c.gll_ts > HalfTimeout /\ NMPARSE(str, GLL)
    THEN [c EXCEPT !.gll = getf(1, str), !.glo = getf(3, str),
                   !.glns = getf(2, str), !.glne = getf(4, str),
                   !.net_ts = tm, !.gll_ts = tm]
    ELSE IF tm - c.rmc_ts > HalfTimeout /\ NMPARSE(str, VTG)
    THEN vtgBody(c, str, tm)
    ELSE IF NMPARSE(str, VHW)
    THEN vhwSet(c, tm, atof(getf(5, str)))
    ELSE IF NMPARSE(str, DPT)
    THEN [c EXCEPT !.dbt = atof(getf(1, str)) + atof(getf(2, str)), !.dbt_ts = tm]
    ELSE IF tm - c.dbt_ts > HalfTimeout /\ NMPARSE(str, DBT)
    THEN [c EXCEPT !.dbt = atof(getf(3, str)), !.dbt_ts = tm]
    ELSE IF NMPARSE(str, MTW)
    THEN [c EXCEPT !.mtw = atof(getf(1, str)), !.mtw_ts = tm]
    ELSE IF NMPARSE(str, MWV)
    THEN mwvBody(c, str, tm)
    ELSE IF tm - c.vwr_ts > HalfTimeout /\ NMPARSE(str, VWR)
    THEN [c EXCEPT !.vwra = atof(getf(1, str)), !.vwrs = Kn2ms(atof(getf(3, str))),
                   !.vwrd = IF strncmp1(getf(2, str), 82) = 0 THEN 0 ELSE 1,
                   !.vwr_ts = tm]
    ELSE IF NMPARSE(str, ENV)
    THEN envBody(c, str, tm)
    ELSE c

---------------------------------------------------------------------------
(* The process.  Time is counted in whole seconds, as time(NULL) counts    *)
(* it.  A step of a thread takes no time; time passes while every thread   *)
(* sits in a delay, a poll or a blocking read.  A delay of a whole number  *)
(* of seconds ends that many ticks later; the delays of 30 and 40 ms take   *)
(* no tick; the 260 ms between two polls of the I2C collector end before   *)
(* or after the next tick, never after the second.                         *)

T0 == S_TIMEOUT + 1     \* the clock at start: the zeroed timestamps are stale
Horizon == 5
MaxTime == T0 + Horizon
MaxSend == 2            \* events of the environment in one run

DefaultCalib == [max |-> <<2029, 1297, 579>>, min |-> <<-324, -1066, -1338>>]

\* calibration calib; is not initialised: what the struct may hold.
ZeroCalib == [max |-> <<0, 0, 0>>, min |-> <<0, 0, 0>>]
Uninit == {ZeroCalib, DefaultCalib}

\* The configuration database: whether sqlite3_open_v2 can open it, and the
\* rows of its table calib.
NoDb == [ok |-> FALSE, rows |-> <<>>]
EmptyDb == [ok |-> TRUE, rows |-> <<>>]
Db(row) == [ok |-> TRUE, rows |-> <<row>>]

\* main: memset(&cnmea, 0, ...), the run flags set to 1; openSDL2 starts a
\* collector if it is configured and clears the run flag otherwise.
ProgStart(net, gps, i2c, mon, ui, db, b) ==
    /\ now = T0
    /\ cnmea = cnmeaZero
    /\ configParams = [ runGps |-> IF gps THEN 1 ELSE 0, runi2c |-> IF i2c THEN 1 ELSE 0,
                        runNet |-> IF net THEN 1 ELSE 0, onHold |-> 0,
                        numThreads |-> 0, netStat |-> 0, i2cFile |-> 0,
                        runMon |-> IF mon THEN 1 ELSE 0 ]
    /\ n_pc = IF net THEN "new" ELSE "off"
    /\ retry = 0 /\ rretry = 0 /\ sretry = 0 /\ ts = 0 /\ n_wake = 0
    /\ nmeastr_p2 = <<>>
    /\ clientSocket = FALSE
    /\ sock = <<>>
    /\ s_pc = IF gps THEN "new" ELSE "off"
    /\ s_wake = 0
    /\ tty = <<>>
    /\ i_pc = IF i2c THEN "new" ELSE "off"
    /\ i_retry = 0 /\ i_ct = 0 /\ i_hdm = 0 /\ i_wake = 0 /\ i_seen = 0
    /\ m_pc = IF mon THEN "top" ELSE "off"
    /\ m_wake = IF mon THEN T0 ELSE -1
    /\ nextPage = "COGPAGE"
    /\ u_pc = IF ui THEN "turn" ELSE "off"
    /\ u_wake = 0
    /\ fails = 0
    /\ budget = b
    /\ netLog = <<>> /\ recvLog = <<>> /\ lastPos = "none" /\ rejected = {}
    /\ hdmAt = 0
    /\ heardAt = [rmc |-> 0, dpt |-> 0, mwv |-> 0]
    /\ k_pc = "off" /\ progress = 0 /\ k_touch = "none" /\ k_event = "none"
    /\ doRun_run = FALSE
    /\ cal_pc = "off" /\ magMax = <<0, 0, 0>> /\ magMin = <<0, 0, 0>>
    /\ cal_seen = {}
    /\ sqlConfig = <<>>
    /\ chip = "none" /\ conn = FALSE /\ connOk = TRUE /\ update = 0
    /\ doUpdate = FALSE /\ calib = ZeroCalib
    /\ dbCalib = db

\* The program as the earlier sections run it: no configuration database,
\* MaxSend events.
ProgInit(net, gps, i2c, mon, ui) == ProgStart(net, gps, i2c, mon, ui, NoDb, MaxSend)

Conf(f, v) == [configParams EXCEPT ![f] = v]

\* Which collector a blackboard update makes the source of the position.
PosWriter(c, d, who) ==
    IF <<d.gll, d.glo, d.glns, d.glne, d.gll_ts>> # <<c.gll, c.glo, c.glns, c.glne, c.gll_ts>>
    THEN who ELSE lastPos

---------------------------------------------------------------------------
(* nmeaNetCollector *)

LogCap == 4     \* the counters of the log throttling are compared up to 4

Bump(n) == IF n < LogCap THEN n + 1 ELSE n

\* Entry: net_ts, netStat, SDLNet_Init and SDLNet_ResolveHost, numThreads++.
NetStart ==
    /\ n_pc = "new"
    /\ cnmea' = [cnmea EXCEPT !.net_ts = now]
    /\ \E ok \in BOOLEAN :
          IF ok
          THEN /\ configParams' = [configParams EXCEPT !.netStat = 0,
                                      !.numThreads = configParams.numThreads + 1]
               /\ n_pc' = "outer"
          ELSE /\ configParams' = Conf("netStat", 0)
               /\ n_pc' = "done"
    /\ sretry' = 0
    /\ UNCHANGED <<libVars, calVars, dbVars, now, retry, rretry, ts, n_wake, nmeastr_p2, clientSocket, sock,
                   serialVars, tty, i2cVars, monVars, uiVars, budget, histVars>>

\* Top of while(1): the counters, the onHold pause.
NetOuter ==
    /\ n_pc = "outer"
    /\ retry' = 0
    /\ rretry' = 0
    /\ IF configParams.onHold # 0
       THEN n_pc' = "hold" /\ n_wake' = now + 4
       ELSE n_pc' = "open" /\ UNCHANGED n_wake
    /\ UNCHANGED <<libVars, calVars, dbVars, now, cnmea, configParams, sretry, ts, nmeastr_p2, clientSocket,
                   sock, serialVars, tty, i2cVars, monVars, uiVars, budget, histVars>>

\* SDLNet_TCP_Open, and what follows a failure.
NetOpen ==
    /\ n_pc = "open"
    /\ \E ok \in BOOLEAN :
          IF ok
          THEN /\ clientSocket' = TRUE
               /\ n_pc' = "alloc"
               /\ UNCHANGED <<retry, n_wake>>
          ELSE /\ clientSocket' = FALSE
               /\ retry' = Bump(retry)
               /\ IF configParams.runNet = 0
                  THEN n_pc' = "alloc" /\ UNCHANGED n_wake
                  ELSE n_pc' = "openwait" /\ n_wake' = now + 10
    /\ UNCHANGED <<libVars, calVars, dbVars, now, cnmea, configParams, rretry, sretry, ts, nmeastr_p2, sock,
                   serialVars, tty, i2cVars, monVars, uiVars, budget, histVars>>

\* SDLNet_AllocSocketSet, the runNet test, SDLNet_CheckSockets(5000) entered.
NetAlloc ==
    /\ n_pc = "alloc"
    /\ \E ok \in BOOLEAN :
          IF ~ok \/ configParams.runNet = 0
          THEN n_pc' = "exit" /\ UNCHANGED n_wake
          ELSE n_pc' = "conn" /\ n_wake' = now + 5
    /\ UNCHANGED <<libVars, calVars, dbVars, now, cnmea, configParams, retry, rretry, sretry, ts, nmeastr_p2,
                   clientSocket, sock, serialVars, tty, i2cVars, monVars, uiVars,
                   budget, histVars>>

\* SDLNet_CheckSockets(5000) returns: data, or the timeout.
NetConn ==
    /\ n_pc = "conn"
    /\ sock # <<>> \/ now >= n_wake
    /\ IF sock # <<>>
       THEN /\ retry' = 0 /\ sretry' = 0 /\ rretry' = 0
            /\ n_pc' = "loop" /\ n_wake' = 0
            /\ UNCHANGED clientSocket
       ELSE /\ clientSocket' = FALSE
            /\ sretry' = Bump(sretry)
            /\ n_pc' = "idle" /\ n_wake' = now + 5
            /\ UNCHANGED <<retry, rretry>>
    /\ UNCHANGED <<libVars, calVars, dbVars, now, cnmea, configParams, ts, nmeastr_p2, sock, serialVars, tty,
                   i2cVars, monVars, uiVars, budget, histVars>>

\* Top of the streaming loop, down to SDLNet_CheckSockets(3000) entered.
NetLoop ==
    /\ n_pc = "loop"
    /\ IF configParams.runNet = 0 \/ configParams.onHold # 0
       THEN n_pc' = "teardown" /\ UNCHANGED <<retry, ts, n_wake>>
       ELSE IF retry + 1 > 10
       THEN n_pc' = "teardown" /\ retry' = retry + 1 /\ UNCHANGED <<ts, n_wake>>
       ELSE n_pc' = "wait" /\ retry' = retry + 1 /\ ts' = now /\ n_wake' = now + 3
    /\ UNCHANGED <<libVars, calVars, dbVars, now, cnmea, configParams, rretry, sretry, nmeastr_p2, clientSocket,
                   sock, serialVars, tty, i2cVars, monVars, uiVars, budget, histVars>>

\* The blackboard after a line: new, written by who; rv is what the line
\* check returned.
\* The clock when a collector handles the accepted sentence str.
Heard(str, rv) ==
    IF rv # 0 THEN heardAt
    ELSE IF NMPARSE(str, RMC) THEN [heardAt EXCEPT !.rmc = now]
    ELSE IF NMPARSE(str, DPT) THEN [heardAt EXCEPT !.dpt = now]
    ELSE IF NMPARSE(str, MWV) THEN [heardAt EXCEPT !.mwv = now]
    ELSE heardAt

Store(new, who, str, rv) ==
    /\ cnmea' = new
    /\ heardAt' = Heard(str, rv)
    /\ lastPos' = PosWriter(cnmea, new, who)
    /\ rejected' = IF rv # 0 THEN rejected \cup {who} ELSE rejected
    /\ hdmAt' = IF <<new.hdm, new.hdm_ts>> # <<cnmea.hdm, cnmea.hdm_ts>>
                THEN now ELSE hdmAt

\* nmeastr_p1 holds cnt > 0 bytes, taken from nmeastr_p2 or received, and r
\* is what nmeaChecksum made of it.
NetLine(log, fromP2, nmeastr_p1, r) ==
    /\ n_pc' = "loop"
    /\ retry' = 0
    /\ configParams' = Conf("netStat", 1)
    /\ nmeastr_p2' = r.p2
    /\ sock' = IF fromP2 THEN sock ELSE Tail(sock)
    /\ Store(IF r.rv = 0 THEN netParse(cnmea, r.p1, ts) ELSE cnmea, "net", r.p1, r.rv)
    /\ netLog' = IF log THEN Append(netLog, [line |-> r.p1, rv |-> r.rv]) ELSE netLog
    /\ recvLog' = IF log /\ ~fromP2 THEN Append(recvLog, nmeastr_p1) ELSE recvLog

NetTurn(log, fromP2, nmeastr_p1) ==
    IF Len(nmeastr_p1) = 0
    THEN \* SDLNet_TCP_Recv <= 0: SDL_Delay(30); continue
         /\ n_pc' = "nap"
         /\ UNCHANGED <<cnmea, configParams, retry, nmeastr_p2, sock, histVars>>
    ELSE NetLine(log, fromP2, nmeastr_p1,
                 nmeaChecksum(nmeastr_p1, TRUE, Len(nmeastr_p1)))

\* SDLNet_CheckSockets(3000) > 0: one line is taken from nmeastr_p2 or from
\* the socket, checked and, if accepted, parsed into the blackboard.
NetRecv(log) ==
    /\ n_pc = "wait"
    /\ sock # <<>>
    /\ NetTurn(log, Len(nmeastr_p2) > 0,
               IF Len(nmeastr_p2) > 0 THEN nmeastr_p2 ELSE Head(sock))
    /\ ts' = 0 /\ n_wake' = 0       \* the turn ends, and ts with it
    /\ UNCHANGED <<libVars, calVars, dbVars, now, rretry, sretry, clientSocket, serialVars, tty,
                   i2cVars, monVars, uiVars, budget>>

\* SDLNet_CheckSockets(3000) timed out.
NetTimeout ==
    /\ n_pc = "wait"
    /\ sock = <<>>
    /\ now >= n_wake
    /\ configParams' = Conf("netStat", 0)
    /\ rretry' = rretry + 1
    /\ ts' = 0
    /\ IF rretry > 10
       THEN n_pc' = "teardown" /\ n_wake' = 0
       ELSE n_pc' = "rwait" /\ n_wake' = now + 1
    /\ UNCHANGED <<libVars, calVars, dbVars, now, cnmea, retry, sretry, nmeastr_p2, clientSocket, sock,
                   serialVars, tty, i2cVars, monVars, uiVars, budget, histVars>>

\* The end of a delay.
NetWake ==
    /\ n_pc \in {"hold", "idle", "openwait", "rwait", "nap"}
    /\ n_pc = "nap" \/ now >= n_wake
    /\ n_pc' = CASE n_pc \in {"hold", "idle"} -> "outer"
                 [] n_pc = "openwait" -> "open"
                 [] OTHER -> "loop"
    /\ n_wake' = 0
    /\ UNCHANGED <<libVars, calVars, dbVars, now, cnmea, configParams, retry, rretry, sretry, ts,
                   nmeastr_p2, clientSocket, sock, serialVars, tty, i2cVars, monVars,
                   uiVars, budget, histVars>>

\* After the streaming loop: the socket is closed, back to while(1).
NetTeardown ==
    /\ n_pc = "teardown"
    /\ clientSocket' = FALSE
    /\ sock' = <<>>
    /\ configParams' = Conf("netStat", 0)
    /\ n_pc' = "outer"
    /\ UNCHANGED <<libVars, calVars, dbVars, now, cnmea, retry, rretry, sretry, ts, n_wake, nmeastr_p2,
                   serialVars, tty, i2cVars, monVars, uiVars, budget, histVars>>

\* After while(1): clean up, numThreads--.
NetExit ==
    /\ n_pc = "exit"
    /\ clientSocket' = FALSE
    /\ sock' = <<>>
    /\ configParams' = [configParams EXCEPT !.netStat = 0,
                           !.numThreads = configParams.numThreads - 1]
    /\ n_pc' = "done"
    /\ UNCHANGED <<libVars, calVars, dbVars, now, cnmea, retry, rretry, sretry, ts, n_wake, nmeastr_p2,
                   serialVars, tty, i2cVars, monVars, uiVars, budget, histVars>>

\* log: whether the histories netLog and recvLog are kept.
NetStep(log) ==
    \/ NetStart \/ NetOuter \/ NetOpen \/ NetAlloc \/ NetConn \/ NetLoop
    \/ NetRecv(log) \/ NetTimeout \/ NetWake \/ NetTeardown \/ NetExit

NetUrgent ==
    \/ n_pc \in {"new", "outer", "open", "alloc", "loop", "nap", "teardown", "exit"}
    \/ n_pc \in {"hold", "idle", "openwait", "rwait"} /\ now >= n_wake
    \/ n_pc \in {"conn", "wait"} /\ (sock # <<>> \/ now >= n_wake)

---------------------------------------------------------------------------
(* threadSerial *)

\* "The vessels network has precedence": the test of net_ts at time t.
\* A variant one second short; the C5 property tells it from the code's test.
netPrecedenceShort(t, net_ts) == ~(t - net_ts >= S_TIMEOUT)

netPrecedence(t, net_ts) == ~(t - net_ts > S_TIMEOUT)

\* Entry: open and portConfigure, numThreads++.
SerialStart ==
    /\ s_pc = "new"
    /\ \E ok \in BOOLEAN :
          IF ok
          THEN /\ configParams' = Conf("numThreads", configParams.numThreads + 1)
               /\ s_pc' = "top"
          ELSE /\ s_pc' = "done"
               /\ UNCHANGED configParams
    /\ UNCHANGED <<libVars, calVars, dbVars, now, cnmea, netVars, sock, s_wake, tty, i2cVars, monVars,
                   uiVars, budget, histVars>>

\* Top of the loop: runGps, the onHold pause, the precedence of the network.
SerialTop ==
    /\ s_pc = "top"
    /\ IF configParams.runGps = 0
       THEN s_pc' = "exit" /\ UNCHANGED s_wake
       ELSE IF configParams.onHold # 0
       THEN s_pc' = "hold" /\ s_wake' = now + 4
       ELSE IF netPrecedence(now, cnmea.net_ts)
       THEN s_pc' = "defer" /\ s_wake' = now + 1
       ELSE s_pc' = "read" /\ UNCHANGED s_wake
    /\ UNCHANGED <<libVars, calVars, dbVars, now, cnmea, configParams, netVars, sock, tty, i2cVars, monVars,
                   uiVars, budget, histVars>>

\* A variant that parses the line whatever nmeaChecksum returned; the C2
\* property tells it from the code.
SerialLineUnchecked(buffer, r) ==
    Store(IF Len(buffer) > 0 THEN serialParse(cnmea, r.p1, now) ELSE cnmea,
          "serial", r.p1, r.rv)

\* buffer is what read() returned less its last byte, r what nmeaChecksum
\* made of it.
SerialLine(buffer, r) ==
    Store(IF Len(buffer) > 0 /\ r.rv = 0 THEN serialParse(cnmea, r.p1, now) ELSE cnmea,
          "serial", r.p1, r.rv)

SerialCut(buffer) == SerialLine(buffer, nmeaChecksum(buffer, FALSE, Len(buffer)))

\* read() returns a line: the last byte is cut, the line checked and, if
\* accepted, parsed into the blackboard with the time of this turn.
SerialRead ==
    /\ s_pc = "read"
    /\ tty # <<>>
    /\ SerialCut(SubSeq(Head(tty), 1, Len(Head(tty)) - 1))
    /\ tty' = Tail(tty)
    /\ s_pc' = "top"
    /\ UNCHANGED <<libVars, calVars, dbVars, now, configParams, netVars, sock, s_wake, i2cVars, monVars,
                   uiVars, budget, netLog, recvLog>>

\* read() fails: SDL_Delay(40); continue.
SerialReadError ==
    /\ s_pc = "read"
    /\ tty = <<>>
    /\ s_pc' = "top"
    /\ UNCHANGED <<libVars, calVars, dbVars, now, cnmea, configParams, netVars, sock, s_wake, tty,
                   i2cVars, monVars, uiVars, budget, histVars>>

\* The end of a delay.
SerialWake ==
    /\ s_pc \in {"hold", "defer"}
    /\ now >= s_wake
    /\ s_pc' = "top"
    /\ s_wake' = 0
    /\ UNCHANGED <<libVars, calVars, dbVars, now, cnmea, configParams, netVars, sock, tty, i2cVars,
                   monVars, uiVars, budget, histVars>>

\* After the loop: close, numThreads--.
SerialExit ==
    /\ s_pc = "exit"
    /\ configParams' = Conf("numThreads", configParams.numThreads - 1)
    /\ s_pc' = "done"
    /\ UNCHANGED <<libVars, calVars, dbVars, now, cnmea, netVars, sock, s_wake, tty, i2cVars, monVars,
                   uiVars, budget, histVars>>

SerialStep ==
    \/ SerialStart \/ SerialTop \/ SerialRead \/ SerialReadError \/ SerialWake
    \/ SerialExit

SerialUrgent ==
    \/ s_pc \in {"new", "top", "exit"}
    \/ s_pc \in {"hold", "defer"} /\ now >= s_wake
    \/ s_pc = "read" /\ tty # <<>>

---------------------------------------------------------------------------
(* i2cCollector.  The sensor fusion is left to its result: i2cReadHdm      *)
(* returns a heading or a negative number, i2cReadRoll a roll angle.       *)

I2cHeadings == {1230}       \* 123.0 degrees
I2cRolls == {-50}           \* -5.0 degrees
\* A roll computed from block buffers no read filled.
FailedRolls == {-50, 1790}

\* The guard of "Take over if no NMEA".
i2cTakeOver(ct, hdm_ts) == ct - hdm_ts > S_TIMEOUT

\* i2cinit: the bus cannot be opened, or it can and neither, the first or
\* the second chip variant answers the identity probe.
Probes == {"nobus", "none", "LSM9DS0", "LSM9DS1"}
I2cFd == 3      \* the descriptor open() returned

dt == 260

\* printf's %i.
RECURSIVE fmtNat(_)
fmtNat(n) == IF n < 10 THEN <<48 + n>> ELSE Append(fmtNat(n \div 10), 48 + (n % 10))
fmtInt(n) == IF n < 0 THEN <<45>> \o fmtNat(0 - n) ELSE fmtNat(n)

Axes == 1..3
\* The UPDATE statement threadCalibrator writes: the six numbers in it.
Statement(mx, mn) == [max |-> [a \in Axes |-> fmtInt(mx[a])],
                      min |-> [a \in Axes |-> fmtInt(mn[a])]]
\* The row of table calib after the statement is run.
RowOf(st) == [max |-> [a \in Axes |-> atoi(st.max[a])],
              min |-> [a \in Axes |-> atoi(st.min[a])]]

\* The reload block at the top of a poll.
reloadDue == conn /\ connOk /\ update > dt \div 10
reloadDb == IF reloadDue /\ sqlConfig # <<>> /\ dbCalib.rows # <<>>
            THEN Db(RowOf(sqlConfig[1])) ELSE dbCalib
reloadSelects == reloadDue /\ (doUpdate \/ sqlConfig # <<>>)
reloadCalib == IF reloadSelects
               THEN IF reloadDb.rows # <<>> THEN reloadDb.rows[1] ELSE DefaultCalib
               ELSE calib
reloadConnOk == IF reloadSelects /\ reloadDb.rows = <<>> THEN FALSE ELSE connOk
reloadDoUpdate == IF reloadDue THEN FALSE ELSE doUpdate
reloadUpdate == IF conn /\ connOk
                THEN IF update > dt \div 10 THEN 0 ELSE update + 1
                ELSE update

\* Entry: i2cinit, numThreads++.
I2cStart ==
    /\ i_pc = "new"
    /\ \E probe \in Probes :
          IF probe = "nobus"
          THEN /\ configParams' = Conf("i2cFile", -1)
               /\ i_pc' = "done"
               /\ UNCHANGED <<chip, conn, connOk, update, doUpdate>>
          ELSE /\ configParams' = [configParams EXCEPT !.i2cFile = I2cFd,
                                                       !.numThreads = @ + 1]
               /\ chip' = probe
               /\ conn' = dbCalib.ok
               /\ connOk' = TRUE
               /\ update' = dt
               /\ doUpdate' = TRUE
               /\ i_pc' = "top"
    /\ \E c \in Uninit : calib' = c
    /\ UNCHANGED <<libVars, calVars, dbCalib, now, cnmea, netVars, sock, serialVars, tty, i_retry, i_ct, i_hdm,
                   i_wake, i_seen, monVars, uiVars, budget, histVars>>

\* Top of the loop: runi2c, the onHold pause, SDL_Delay(dt) entered.
I2cTop ==
    /\ i_pc = "top"
    /\ IF configParams.runi2c = 0
       THEN i_pc' = "exit" /\ UNCHANGED i_wake
       ELSE IF configParams.onHold # 0
       THEN i_pc' = "hold" /\ i_wake' = now + 4
       ELSE i_pc' = "delay" /\ i_wake' = now + 1
    /\ UNCHANGED <<libVars, calVars, dbVars, now, cnmea, configParams, netVars, sock, serialVars, tty, i_retry,
                   i_ct, i_hdm, i_seen, monVars, uiVars, budget, histVars>>

\* After the delay: ct, i2cReadHdm returning h, and on h >= 0
\* cnmea.roll_i2cts = ct.  A failed read (busError) is an event of the
\* environment.
I2cTurn(h, busError) ==
    /\ i_pc = "delay"
    /\ connOk' = reloadConnOk
    /\ update' = reloadUpdate
    /\ doUpdate' = reloadDoUpdate
    /\ calib' = reloadCalib
    /\ dbCalib' = reloadDb
    /\ sqlConfig' = IF reloadDue THEN <<>> ELSE sqlConfig
    /\ busError => (chip # "none" /\ budget > 0)
    /\ budget' = IF busError THEN budget - 1 ELSE budget
    /\ IF h < 0
       THEN /\ i_retry' = i_retry + 1
            /\ i_pc' = IF i_retry > 3 THEN "exit" ELSE "top"
            /\ UNCHANGED <<cnmea, i_ct, i_hdm>>
       ELSE /\ i_ct' = now
            /\ i_hdm' = h
            /\ cnmea' = [cnmea EXCEPT !.roll_i2cts = now]
            /\ i_pc' = "roll"
            /\ UNCHANGED i_retry
    /\ i_wake' = 0
    /\ UNCHANGED <<calRun, chip, conn, now, configParams, netVars, sock, serialVars,
                   tty, i_seen, monVars, uiVars, histVars>>

\* The turn with i2cReadHdm taken as a whole: a heading, or a read error.
I2cRead ==
    /\ \E h \in I2cHeadings \cup {-1} : I2cTurn(h, h < 0)
    /\ UNCHANGED libVars

\* cnmea.roll = i2cReadRoll(...): readACC's result is dropped and readGYR has
\* none, so after a failed bus read the roll is computed from whatever the
\* block buffers held and stored like any other.
I2cRoll ==
    /\ i_pc = "roll"
    /\ \E failed \in BOOLEAN :
          IF failed
          THEN /\ chip # "none"
               /\ budget > 0
               /\ budget' = budget - 1
               /\ \E roll \in FailedRolls : cnmea' = [cnmea EXCEPT !.roll = roll]
          ELSE /\ \E roll \in I2cRolls : cnmea' = [cnmea EXCEPT !.roll = roll]
               /\ UNCHANGED budget
    /\ i_pc' = "chk"
    /\ UNCHANGED <<libVars, calVars, dbVars, now, configParams, netVars, sock, serialVars, tty, i_retry,
                   i_ct, i_hdm, i_wake, i_seen, monVars, uiVars, histVars>>

\* if (ct - cnmea.hdm_ts > S_TIMEOUT)
I2cCheck ==
    /\ i_pc = "chk"
    /\ IF i2cTakeOver(i_ct, cnmea.hdm_ts)
       THEN i_pc' = "whdm" /\ i_seen' = cnmea.hdm_ts /\ UNCHANGED <<i_ct, i_hdm>>
       ELSE i_pc' = "top" /\ i_seen' = 0 /\ i_ct' = 0 /\ i_hdm' = 0
    /\ UNCHANGED <<libVars, calVars, dbVars, now, cnmea, configParams, netVars, sock, serialVars, tty, i_retry,
                   i_wake, monVars, uiVars, budget, histVars>>

\* cnmea.hdm = hdm; cnmea.hdm_i2cts = ct;
I2cWrite ==
    /\ i_pc = "whdm"
    /\ cnmea' = [cnmea EXCEPT !.hdm = i_hdm, !.hdm_i2cts = i_ct]
    /\ i_pc' = "top"
    /\ i_seen' = 0 /\ i_ct' = 0 /\ i_hdm' = 0
    /\ UNCHANGED <<libVars, calVars, dbVars, now, configParams, netVars, sock, serialVars, tty, i_retry, i_wake,
                   monVars, uiVars, budget, histVars>>

I2cWake ==
    /\ i_pc = "hold"
    /\ now >= i_wake
    /\ i_pc' = "top"
    /\ i_wake' = 0
    /\ UNCHANGED <<libVars, calVars, dbVars, now, cnmea, configParams, netVars, sock, serialVars, tty, i_retry,
                   i_ct, i_hdm, i_seen, monVars, uiVars, budget, histVars>>

\* After the loop: close, numThreads--.
I2cExit ==
    /\ i_pc = "exit"
    /\ configParams' = [configParams EXCEPT !.i2cFile = 0, !.numThreads = @ - 1]
    /\ conn' = FALSE
    /\ i_pc' = "done"
    /\ UNCHANGED <<libVars, calVars, chip, connOk, update, doUpdate, calib, dbCalib, now, cnmea, netVars, sock, serialVars, tty, i_retry, i_ct, i_hdm,
                   i_wake, i_seen, monVars, uiVars, budget, histVars>>

I2cStep == I2cStart \/ I2cTop \/ I2cRead \/ I2cRoll \/ I2cCheck \/ I2cWrite \/ I2cWake \/ I2cExit

I2cUrgent ==
    \/ i_pc \in {"new", "top", "roll", "chk", "whdm", "exit"}
    \/ i_pc \in {"hold", "delay"} /\ now >= i_wake

---------------------------------------------------------------------------
(* threadMonstat, the operator and the clock *)

\* Top of its loop every 5 s: runMon, and popen entered.
MonTop ==
    /\ m_pc = "top"
    /\ now >= m_wake
    /\ m_pc' = IF configParams.runMon = 0 THEN "done" ELSE "popen"
    /\ UNCHANGED <<libVars, calVars, dbVars, now, cnmea, configParams, netVars, sock,
                   serialVars, tty, i2cVars, m_wake, uiVars, budget, histVars>>

\* What tvservice answered: onHold is cleared or set, and the delay begins.
Monstat ==
    /\ m_pc = "popen"
    /\ \E hold \in {0, 1} : configParams' = Conf("onHold", hold)
    /\ m_pc' = "top"
    /\ m_wake' = now + 5
    /\ UNCHANGED <<libVars, calVars, dbVars, now, cnmea, netVars, sock, serialVars, tty, i2cVars, uiVars,
                   budget, histVars>>

MonUrgent == m_pc = "popen" \/ (m_pc = "top" /\ now >= m_wake)

\* main after its page loop: the run flags are cleared.
Quit ==
    /\ configParams.runGps + configParams.runi2c + configParams.runNet > 0
    /\ u_pc \in {"off", "turn"}
    /\ configParams.onHold = 0
    /\ budget > 0
    /\ configParams' = [configParams EXCEPT !.runGps = 0, !.runi2c = 0, !.runNet = 0,
                                            !.runMon = 0]
    /\ u_pc' = IF u_pc = "turn" THEN "quit" ELSE u_pc
    /\ budget' = budget - 1
    /\ UNCHANGED <<libVars, calVars, dbVars, now, cnmea, netVars, sock, serialVars, tty, i2cVars,
                   monVars, nextPage, u_wake, fails, histVars>>

---------------------------------------------------------------------------
(* The rendering consumers: main dispatches to the loop of nextPage.  One  *)
(* turn of a loop reads the blackboard and draws; what is drawn is not     *)
(* kept.  The process does not run as root: setUTCtime leaves the system   *)
(* clock alone.                                                            *)

Pages == {"COGPAGE", "SOGPAGE", "DPTPAGE", "WNDPAGE", "GPSPAGE", "PWRPAGE"}

\* setUTCtime, f being its static fails before the call: what it stores in
\* rmc_tm_set.
setUTCtimeSet(c, f) ==
    IF f + 1 > 20 THEN 2
    ELSE IF Len(c.time) + Len(c.date) < 15 THEN 0
    ELSE 2
setUTCtime(c, f) == [c EXCEPT !.rmc_tm_set = setUTCtimeSet(c, f)]

\* doCompass: "Set system UTC time" at time ct.
doCompassSets(c, ct) == ~(ct - c.rmc_gps_ts > S_TIMEOUT) /\ c.rmc_tm_set = 1

\* One turn of the loop of nextPage, down to its closing SDL_Delay.
PageTurn ==
    /\ u_pc = "turn"
    /\ IF configParams.onHold # 0
       THEN /\ u_pc' = "hold" /\ u_wake' = now + 4
            /\ UNCHANGED <<cnmea, fails>>
       ELSE /\ u_pc' = "drawn" /\ UNCHANGED u_wake
            /\ IF nextPage = "COGPAGE" /\ doCompassSets(cnmea, now)
               THEN cnmea' = setUTCtime(cnmea, fails) /\ fails' = fails + 1
               ELSE UNCHANGED <<cnmea, fails>>
    /\ UNCHANGED <<libVars, calVars, dbVars, now, configParams, netVars, sock, serialVars, tty, i2cVars, monVars,
                   nextPage, budget, histVars>>

\* A touch on the menu bar: the loop is left and main enters another page.
PageSelect ==
    /\ u_pc = "turn"
    /\ configParams.onHold = 0
    /\ \E pg \in Pages \ {nextPage} : nextPage' = pg
    /\ UNCHANGED <<libVars, calVars, dbVars, now, cnmea, configParams, netVars, sock, serialVars, tty, i2cVars,
                   monVars, u_pc, u_wake, fails, budget, histVars>>

\* The end of the delay that closes a turn, or of the onHold pause.
PageWake ==
    /\ u_pc \in {"drawn", "hold"}
    /\ u_pc = "drawn" \/ now >= u_wake
    /\ u_pc' = "turn"
    /\ u_wake' = 0
    /\ UNCHANGED <<libVars, calVars, dbVars, now, cnmea, configParams, netVars, sock, serialVars, tty, i2cVars,
                   monVars, nextPage, fails, budget, histVars>>

\* main after its page loop, the run flags cleared: while (numThreads)
\* SDL_Delay(100); is passed and closeSDL2 begins.
MainExit ==
    /\ u_pc = "quit"
    /\ configParams.numThreads = 0
    /\ u_pc' = "closed"
    /\ UNCHANGED <<libVars, calVars, dbVars, now, cnmea, configParams, netVars, sock, serialVars, tty, i2cVars,
                   monVars, nextPage, u_wake, fails, budget, histVars>>

UiStep == PageTurn \/ PageSelect \/ PageWake \/ MainExit

UiUrgent ==
    \/ u_pc = "turn"
    \/ u_pc = "hold" /\ now >= u_wake
    \/ u_pc = "quit" /\ configParams.numThreads = 0

TickTo(end) ==
    /\ now < end
    /\ ~NetUrgent /\ ~SerialUrgent /\ ~I2cUrgent /\ ~MonUrgent /\ ~UiUrgent
    /\ now' = now + 1
    /\ UNCHANGED <<libVars, calVars, dbVars, cnmea, configParams, netVars, sock, serialVars, tty, i2cVars,
                   monVars, uiVars, budget, histVars>>

Tick == TickTo(MaxTime)

---------------------------------------------------------------------------
(* The talkers: what the NMEA server and the GPS device send.              *)

HexDigit(d) == IF d < 10 THEN 48 + d ELSE 55 + d
Frame(body) ==
    LET x == PlainXor(body, 1, Len(body))
    IN  <<36>> \o body \o <<42, HexDigit(x \div 16), HexDigit(x % 16)>>
\* A frame whose checksum field is wrong.
BadFrame(body) ==
    LET x == (PlainXor(body, 1, Len(body)) + 1) % 256
    IN  <<36>> \o body \o <<42, HexDigit(x \div 16), HexDigit(x % 16)>>
CRLF == <<13, 10>>

netRMC == B(<<"G","P","R","M","C",",","1",",","A",",","4","8",",","N",",",
              "1","1",",","E",",","3",".","0",",","8","4">>)
netGLL == B(<<"G","P","G","L","L",",","4","8",",","N",",","1","1",",","E">>)
netDPT == B(<<"G","P","D","P","T",",","5",".","5",",","0",".","5">>)
netBad == B(<<"G","P","R","M","C",",","1",",","A",",","4","9",",","N",",",
              "1","2",",","E",",","3",".","0",",","9","9">>)
serRMC == B(<<"G","P","R","M","C",",","2",",","A",",","4","7",",","N",",",
              "1","0",",","E",",","3",".","0",",","9","0">>)
serGLL == B(<<"G","P","G","L","L",",","4","7",",","N",",","1","0",",","E">>)
serHDM == B(<<"G","P","H","D","M",",","7","7",",","M">>)
serVTG == B(<<"G","P","V","T","G",",","9","5",",","T",",",",","M",",","6",".","0",",","N">>)
serBad == B(<<"G","P","R","M","C",",","2",",","A",",","4","6",",","N",",",
              "0","9",",","E",",","3",".","0",",","9","1">>)

\* hhmmss.sss and ddmmyy: a time and a date setUTCtime takes.
uiRMC == B(<<"G","P","R","M","C",",","1","2","3","5","1","9",".","0","0","0",",",
             "A",",","4","8",",","N",",","1","1",",","E",",","3",".","0",",",
             "8","4",",","2","3","0","3","9","4">>)

\* Where the server cuts the DPT sentence when it sends it in two parts.
CutAt == 8

\* What one receive can return: two sentences, a rejected sentence before a
\* good one, a sentence followed by the head of the next, the tail of that
\* one, and a single sentence.
NetChunks ==
    { Frame(netRMC) \o CRLF \o Frame(netDPT) \o CRLF,
      BadFrame(netBad) \o CRLF \o Frame(netGLL) \o CRLF,
      Frame(netRMC) \o CRLF \o SubSeq(Frame(netDPT), 1, CutAt),
      SubSeq(Frame(netDPT), CutAt + 1, Len(Frame(netDPT))) \o CRLF,
      Frame(netDPT) \o CRLF }

\* The server sends a chunk on the open connection.
ServerSend(chunks) ==
    /\ clientSocket
    /\ budget > 0
    /\ sock = <<>>         \* the last chunk has been received
    /\ \E k \in chunks : sock' = Append(sock, k)
    /\ budget' = budget - 1
    /\ UNCHANGED <<libVars, calVars, dbVars, now, cnmea, configParams, netVars, serialVars, tty, i2cVars,
                   monVars, uiVars, histVars>>

\* The server closes the connection: the socket reads as ready and
\* SDLNet_TCP_Recv returns 0 from then on.
ServerClose ==
    /\ clientSocket
    /\ budget > 0
    /\ sock = <<>>
    /\ sock' = << <<>> >>
    /\ budget' = budget - 1
    /\ UNCHANGED <<libVars, calVars, dbVars, now, cnmea, configParams, netVars, serialVars, tty, i2cVars,
                   monVars, uiVars, histVars>>

\* What the server sends when the whole process is looked at: one
\* sentence a receive.
NetFeed == { Frame(netRMC) \o CRLF, BadFrame(netBad) \o CRLF }

\* What one read of the serial device returns: one line, '\n' at its end.
SerialFeed == { Frame(serRMC) \o <<10>>, Frame(serHDM) \o <<10>>,
                Frame(serVTG) \o <<10>>, BadFrame(serBad) \o <<10>> }

\* The GPS device sends a line.
DeviceSend ==
    /\ s_pc \notin {"off", "done"}
    /\ budget > 0
    /\ tty = <<>>          \* the last line has been read
    /\ \E l \in SerialFeed : tty' = Append(tty, l)
    /\ budget' = budget - 1
    /\ UNCHANGED <<libVars, calVars, dbVars, now, cnmea, configParams, netVars, sock, serialVars, i2cVars,
                   monVars, uiVars, histVars>>

---------------------------------------------------------------------------
(* The specifications *)

Callers == {"serial", "net"}
NoCall == [pc |-> "off", pos |-> 0, str |-> <<>>, got |-> <<>>]
IdleGetf == out = <<>> /\ caller = [w \in Callers |-> NoCall]
IdleCodec ==
    /\ c_pc = "off" /\ c_str = <<>> /\ c_pos = 0 /\ c_coord = 0 /\ c_res = <<>>
    /\ IdleGetf
Collectors == {"serial", "i2c", "net"}
MaxGen == 2
Gens == 1..MaxGen
NoThread == [pc |-> "none", reg |-> 0]
NoRunners == [c \in Collectors |-> 0]
IdleLife ==
    /\ threads = [t \in Collectors \X Gens |-> NoThread]
    /\ d_pc = "off" /\ runners = NoRunners /\ gen = 0
Readers == {"i2cCollector", "threadCalibrator"}
NoReader == [pc |-> "off", at |-> 0, addr |-> "none", got |-> "none"]
NoIndex == [buf |-> "none", pc |-> "off", cnt |-> 0, at |-> -1, more |-> FALSE,
            lo |-> 0, hi |-> 0]
IdleBus == slave = "none" /\ readers = [r \in Readers |-> NoReader] /\ idx = NoIndex
IdleImu ==
    curHeading = 0 /\ sampleCnt = 0 /\ h_ret = 0 /\ h_new = -1 /\ h_acc = FALSE
IdleLib == IdleCodec /\ IdleImu /\ IdleLife /\ IdleBus

\* The network collector alone, with a server that packs and cuts sentences.
NetInit == IdleLib /\ ProgInit(TRUE, FALSE, FALSE, FALSE, FALSE)
NetNext ==
    \/ NetStep(TRUE) \/ ServerSend(NetChunks) \/ ServerClose \/ Tick
SpecNet == NetInit /\ [][NetNext]_vars

\* The network collector over the time five attempts to connect take.
ConnHorizon == 40
\* The network collector with a talker whose sentences compete for the same
\* fields: RMC at 1.0 knot and at 3.0 knots, VTG, DPT and DBT, MWV (true
\* wind) and VWR.
slowRMC == B(<<"G","P","R","M","C",",","1",",","A",",","4","8",",","N",",",
               "1","1",",","E",",","1",".","0",",","8","4">>)
netVTG == B(<<"G","P","V","T","G",",","9","0",",","T",",",",","M",",","5",".","0",",","N">>)
netDBT == B(<<"G","P","D","B","T",",",",",",","9",".","0",",","M">>)
trueMWV == B(<<"G","P","M","W","V",",","3","0",",","T",",","8",".","0",",","N">>)
netVWR == B(<<"G","P","V","W","R",",","4","0",",","L",",","6",".","0",",","N">>)
PrecFeed ==
    { Frame(l) \o CRLF : l \in {netRMC, slowRMC, netVTG, netDPT, netDBT, trueMWV, netVWR} }

\* Three events: a sentence that opens the exchange and two that compete.
PrecSend == 3
PrecInit == IdleLib /\ ProgStart(TRUE, FALSE, FALSE, FALSE, FALSE, NoDb, PrecSend)
PrecNext ==
    \/ NetStep(FALSE) \/ ServerSend(PrecFeed) \/ Quit \/ Tick
SpecPrec == PrecInit /\ [][PrecNext]_vars

ConnInit == IdleLib /\ ProgStart(TRUE, FALSE, FALSE, FALSE, FALSE, NoDb, 1)
ConnNext ==
    \/ NetStep(FALSE) \/ ServerSend(NetFeed) \/ Quit \/ TickTo(T0 + ConnHorizon)
SpecConn == ConnInit /\ [][ConnNext]_vars

\* The network collector and threadMonstat when main stops them: every
\* thread is scheduled again and again and every delay ends, WindDown
\* seconds being more than the longest wait a thread is in.
WindDown == 12
StopEnd == T0 + Horizon + WindDown
StopInit == IdleLib /\ ProgStart(TRUE, FALSE, FALSE, TRUE, FALSE, NoDb, MaxSend)
MonStep == MonTop \/ Monstat
\* The steps of the collector but the read, and where the read can be taken;
\* a read moves the thread on, so that weak fairness of it is that the
\* thread is not for ever where it can read.
NetMoves ==
    \/ NetStart \/ NetOuter \/ NetOpen \/ NetAlloc \/ NetConn \/ NetLoop
    \/ NetTimeout \/ NetWake \/ NetTeardown \/ NetExit
NetCanRecv == n_pc = "wait" /\ sock # <<>>
StopNext ==
    \/ NetStep(FALSE) \/ MonTop \/ Monstat \/ ServerSend(NetFeed) \/ Quit
    \/ TickTo(StopEnd)
SpecStopFair ==
    /\ StopInit /\ [][StopNext]_vars
    /\ WF_vars(NetMoves) /\ []<>~NetCanRecv /\ WF_vars(MonStep)
    /\ WF_vars(TickTo(StopEnd))

\* The two NMEA collectors side by side, each with its talker.
Init == IdleLib /\ ProgInit(TRUE, TRUE, FALSE, FALSE, FALSE)
Next ==
    \/ NetStep(FALSE) \/ SerialStep
    \/ ServerSend(NetFeed) \/ DeviceSend \/ Quit \/ Tick
Spec == Init /\ [][Next]_vars

\* No NMEA server configured: the serial collector and the I2C collector,
\* the display monitor and the operator.
I2cInit == IdleLib /\ ProgInit(FALSE, TRUE, TRUE, TRUE, FALSE)
I2cNext ==
    \/ SerialStep \/ I2cStep \/ MonTop \/ Monstat \/ Quit \/ DeviceSend \/ Tick
SpecI2c == I2cInit /\ [][I2cNext]_vars

\* The network collector and the I2C collector, the display monitor and
\* the operator.
HdmInit == IdleLib /\ ProgInit(TRUE, FALSE, TRUE, TRUE, FALSE)
HdmNext ==
    \/ NetStep(FALSE) \/ I2cStep \/ MonTop \/ Monstat \/ ServerSend(NetFeed) \/ Quit
    \/ Tick
SpecHdm == HdmInit /\ [][HdmNext]_vars

\* The network collector and the rendering loop.
UiFeed == { Frame(netRMC) \o CRLF, Frame(uiRMC) \o CRLF }
UiInit == IdleLib /\ ProgInit(TRUE, FALSE, FALSE, FALSE, TRUE)
UiNext ==
    \/ NetStep(FALSE) \/ UiStep \/ ServerSend(UiFeed) \/ Quit \/ Tick
SpecUI == UiInit /\ [][UiNext]_vars

---------------------------------------------------------------------------
(* The codec called on its own: every line over a small alphabet, the      *)
(* example sentence of the specification, and lines long enough to fill    *)
(* out[200].                                                               *)

MaxLine == 5
MaxPos == 3

\* '$' '!' '*' ',' 'A' '4' '1'
CodecAlphabet == {36, 33, 42, 44, 65, 52, 49}

ShortLines == UNION {[1..n -> CodecAlphabet] : n \in 0..MaxLine}

\* $GPRMC,123519,A,4807.038,N,01131.000,E,022.4,084.4,230394,003.1,W*6A
ExampleRMC ==
    B(<<"$","G","P","R","M","C",",","1","2","3","5","1","9",",","A",",",
        "4","8","0","7",".","0","3","8",",","N",",","0","1","1","3","1",".",
        "0","0","0",",","E",",","0","2","2",".","4",",","0","8","4",".","4",
        ",","2","3","0","3","9","4",",","0","0","3",".","1",",","W","*","6","A">>)

\* "$GPRMC,,," followed by OutSize bytes 'A': field 3 does not fit out.
LongTail == B(<<"$","G","P","R","M","C",",",",",",">>) \o [i \in 1..OutSize |-> 65]

\* The same with one byte less: the text and its NUL just fit.
FullTail == B(<<"$","G","P","R","M","C",",",",",",">>) \o [i \in 1..(OutSize - 1) |-> 65]

NamedLines ==
    { ExampleRMC, LongTail, FullTail,
      B(<<"$","A","$","*","4","1">>),             \* a '$' inside the span
      B(<<"$","A","!","*","4","1">>),
      B(<<"$","A","*","4","1","cr","lf">>),
      B(<<"$","A","*","4","a">>),
      B(<<"$","G","*","4","7">>) }

CodecLines == ShortLines \cup NamedLines

CodecInit ==
    /\ c_pc = "idle"
    /\ c_str \in CodecLines
    /\ c_pos = 0
    /\ c_coord = 0
    /\ c_res = <<>>
    /\ IdleGetf
    /\ IdleImu
    /\ IdleLife /\ IdleBus
    /\ ProgInit(FALSE, FALSE, FALSE, FALSE, FALSE)

CallChecksum ==
    /\ c_pc = "idle"
    /\ c_pc' = "nmeaChecksum"
    /\ c_res' = nmeaChecksum(c_str, FALSE, Len(c_str)).rv
    /\ UNCHANGED <<c_str, c_pos, c_coord, out, caller, imuVars, lifeVars, busVars, progVars>>

CallGetf ==
    /\ c_pc = "idle"
    /\ \E pos \in 0..MaxPos \cup {7, 99} :
          /\ c_pos' = pos
          /\ c_res' \in getfOutcomes(pos, c_str)
    /\ c_pc' = "getf"
    /\ UNCHANGED <<c_str, c_coord, out, caller, imuVars, lifeVars, busVars, progVars>>

\* Whole-number coordinates in DDDMM form, in range and out of it.
DmsCoords ==
    {0, 59, 4807, 8959, 9000, 9001, 9100, 12030, 17959, 18000, 18001, 18100,
     36000, -100, -4807, -9100, -18100}

\* "m" and "p"
DmsHints == {<<109>>, <<112>>}

CallDms2dd ==
    /\ c_pc = "idle"
    /\ \E coordinates \in DmsCoords, val \in DmsHints :
          /\ c_coord' = coordinates
          /\ c_str' = val
          /\ c_res' = dms2dd(coordinates, val)
    /\ c_pc' = "dms2dd"
    /\ UNCHANGED <<c_pos, out, caller, imuVars, lifeVars, busVars, progVars>>

CodecNext == CallChecksum \/ CallGetf \/ CallDms2dd

SpecCodec == CodecInit /\ [][CodecNext]_vars

---------------------------------------------------------------------------
(* getf called by the serial collector and by the network collector at    *)
(* once, each on its own RMC sentence: strcpy(cnmea.gll, getf(3, ...)) and *)
(* its three neighbours.  Both calls work on the one static out.           *)

\* The field numbers of the position in RMC: gll, glns, glo, glne.
PosFields == 3..6

GetfLine(w) == IF w = "serial" THEN Frame(serRMC) ELSE Frame(netRMC)

GetfInit ==
    /\ c_pc = "off" /\ c_str = <<>> /\ c_pos = 0 /\ c_coord = 0 /\ c_res = <<>>
    /\ out = <<>>
    /\ \E ps \in PosFields, pn \in PosFields :
          caller = [w \in Callers |->
                       [pc |-> "memset", pos |-> IF w = "serial" THEN ps ELSE pn,
                        str |-> GetfLine(w), got |-> <<>>]]
    /\ IdleImu
    /\ IdleLife /\ IdleBus
    /\ ProgInit(TRUE, TRUE, FALSE, FALSE, FALSE)

\* memset(out,0,sizeof(out));
GetfMemset(w) ==
    /\ caller[w].pc = "memset"
    /\ out' = <<>>
    /\ caller' = [caller EXCEPT ![w].pc = "strcat"]
    /\ UNCHANGED <<c_pc, c_str, c_pos, c_coord, c_res, imuVars, lifeVars, busVars, progVars>>

\* strcat(out, &str[++i]); at the comma that opens field pos: the rest of
\* the sentence is appended to what out holds.
GetfStrcat(w) ==
    /\ caller[w].pc = "strcat"
    /\ out' = out \o getfTail(caller[w].str, NthComma(caller[w].str, caller[w].pos, 0))
    /\ caller' = [caller EXCEPT ![w].pc = "cut"]
    /\ UNCHANGED <<c_pc, c_str, c_pos, c_coord, c_res, imuVars, lifeVars, busVars, progVars>>

\* The loop over out that puts a NUL on its first comma, and return (out).
GetfCutOut(w) ==
    /\ caller[w].pc = "cut"
    /\ out' = getfCat(out)
    /\ caller' = [caller EXCEPT ![w].pc = "strcpy"]
    /\ UNCHANGED <<c_pc, c_str, c_pos, c_coord, c_res, imuVars, lifeVars, busVars, progVars>>

\* The caller's strcpy from the returned pointer.
GetfCopy(w) ==
    /\ caller[w].pc = "strcpy"
    /\ caller' = [caller EXCEPT ![w].pc = "done", ![w].got = out]
    /\ UNCHANGED <<c_pc, c_str, c_pos, c_coord, c_res, out, imuVars, lifeVars, busVars, progVars>>

GetfNext ==
    \E w \in Callers :
        GetfMemset(w) \/ GetfStrcat(w) \/ GetfCutOut(w) \/ GetfCopy(w)
SpecGetf == GetfInit /\ [][GetfNext]_vars

---------------------------------------------------------------------------
(* i2cReadHdm called on its own: the sample counter and the deadband.  The *)
(* fusion arithmetic up to "Convert heading to 0 - 360" is the input: the  *)
(* heading it computed, in tenths of a degree.                             *)

RDEV == 20      \* 2 degrees

\* roundf of a heading in tenths: to the nearest degree, halves away from
\* zero.
roundf(h) ==
    IF h < 0 THEN 0 - (((0 - h) + 5) \div 10) * 10 ELSE ((h + 5) \div 10) * 10

\* if (!curHeading) curHeading = heading;
curOrFirst(cur, heading) == IF cur = 0 THEN heading ELSE cur

\* The deadband: TRUE when heading is taken as the new curHeading.
leavesBand(heading, cur) == heading > cur + RDEV \/ heading < cur - RDEV

\* curHeading after the deadband, cur being curHeading before it.
bandCur(heading, cur) == IF leavesBand(heading, cur) THEN heading ELSE cur

\* 180*atan2(magYcomp, magXcomp)/M_PI, in tenths: -180 to 180 degrees.
Atan2Degrees == {0, 15, 25, 100, 101, 104, 119, 130, 1700, 1800, -10, -1, -1800}

\* calib->declval in tenths: 0, and ddeclval = 0.13 or a row of the database.
Declvals == {0, 1}

\* calib->coffset in degrees.  Nothing assigns it and calib is an automatic
\* variable of i2cCollector, so any int is a value it can hold.
Coffsets == {0, 200, -400}

\* if (heading < 0) heading += 360;
Circle == 3600
to360(heading) == IF heading < 0 THEN heading + Circle ELSE heading

\* Headings the fusion computes: the angle with declination and offset
\* added, converted to 0 - 360.
Computed ==
    {to360(angle + declval + 10 * coffset) :
        angle \in Atan2Degrees, declval \in Declvals, coffset \in Coffsets}

\* readMAG + readACC: each 0 or -1.
ReadResults == {-1, -2}

ImuInit == IdleCodec /\ IdleImu /\ IdleLife /\ IdleBus /\ ProgInit(FALSE, FALSE, FALSE, FALSE, FALSE)

\* if (sampleCnt++ < 5) return curHeading;
HdmSkip ==
    /\ sampleCnt < 5
    /\ sampleCnt' = sampleCnt + 1
    /\ h_ret' = curHeading
    /\ h_new' = -1
    /\ UNCHANGED <<codecVars, curHeading, h_acc, lifeVars, busVars, progVars>>

\* The sixth call, readMAG or readACC failing.
HdmFail ==
    /\ sampleCnt >= 5
    /\ sampleCnt' = 0
    /\ \E result \in ReadResults : h_ret' = result * 10
    /\ h_new' = -1
    /\ UNCHANGED <<codecVars, curHeading, h_acc, lifeVars, busVars, progVars>>

\* The sixth call, the sensors read: heading is computed and put through the
\* deadband.
HdmCompute ==
    /\ sampleCnt >= 5
    /\ sampleCnt' = 0
    /\ \E heading \in Computed :
          /\ h_new' = heading
          /\ curHeading' = bandCur(heading, curOrFirst(curHeading, heading))
          /\ h_ret' = roundf(bandCur(heading, curOrFirst(curHeading, heading)))
    /\ h_acc' = TRUE
    /\ UNCHANGED <<codecVars, lifeVars, busVars, progVars>>

ImuNext == HdmSkip \/ HdmFail \/ HdmCompute

SpecImu == ImuInit /\ [][ImuNext]_vars

---------------------------------------------------------------------------
(* The I2C collector with i2cReadHdm's statics behind its call: what the   *)
(* collector is given on each of the six calls of a sub-sampling round.    *)

\* What one call of i2cReadHdm can do from its statics: the statics after
\* it, what it returns, and whether a bus read failed.
hdmOutcomes(headings) ==
    IF sampleCnt < 5
    THEN { [cnt |-> sampleCnt + 1, cur |-> curHeading, ret |-> curHeading,
            new |-> -1, acc |-> h_acc, busError |-> FALSE] }
    ELSE { [cnt |-> 0, cur |-> curHeading, ret |-> result * 10,
            new |-> -1, acc |-> h_acc, busError |-> TRUE] : result \in ReadResults }
         \cup
         { [cnt |-> 0, cur |-> bandCur(heading, curOrFirst(curHeading, heading)),
            ret |-> roundf(bandCur(heading, curOrFirst(curHeading, heading))),
            new |-> heading, acc |-> TRUE, busError |-> FALSE] : heading \in headings }

\* if ((hdm = i2cReadHdm(configParams->i2cFile, &calib)) < 0) ...
I2cPoll(headings) ==
    /\ \E o \in hdmOutcomes(headings) :
          /\ sampleCnt' = o.cnt
          /\ curHeading' = o.cur
          /\ h_ret' = o.ret
          /\ h_new' = o.new
          /\ h_acc' = o.acc
          /\ I2cTurn(o.ret, o.busError)
    /\ UNCHANGED <<codecVars, lifeVars, busVars>>

\* Three of the headings the fusion computes, two of them within RDEV of
\* each other.  The clock stands still: a turn takes dt = 260 ms and no
\* NMEA heading competes.
PollHeadings == {100, 119, 1800} \cap Computed
PollInit == IdleLib /\ ProgInit(FALSE, FALSE, TRUE, FALSE, FALSE)
PollNext ==
    \/ I2cStart \/ I2cTop \/ I2cPoll(PollHeadings) \/ I2cRoll \/ I2cCheck \/ I2cWrite
    \/ I2cExit \/ Quit
SpecPoll == PollInit /\ [][PollNext]_vars

---------------------------------------------------------------------------
(* doCalibration and threadCalibrator.  One step of a countdown is the     *)
(* dozen turns of the loop that make one second; the second that follows   *)
(* doRun.run = 0 outlasts the 25 ms the calibrator sleeps between samples. *)

CountFrom == 10
cperiod == 60

MagSamples == { <<-32768, -32768, -32768>>, <<-5, 0, 5>>, <<32767, 100, -100>> }
AbortEvents == {"SDL_MOUSEBUTTONDOWN", "SDL_QUIT"}

\* The operator selects the calibration page on the compass page and main
\* calls doCalibration, which returns at once without an I2C descriptor.
CalEnter ==
    /\ u_pc = "turn" /\ nextPage = "COGPAGE" /\ configParams.onHold = 0
    /\ k_pc = "off"
    /\ budget > 0
    /\ budget' = budget - 1
    /\ IF configParams.i2cFile = 0
       THEN /\ \E pg \in Pages : nextPage' = pg
            /\ UNCHANGED <<u_pc, calRun>>
       ELSE /\ k_pc' = "countdown"
            /\ progress' = CountFrom
            /\ k_touch' = "none" /\ k_event' = "none"
            /\ doRun_run' = TRUE
            /\ cal_pc' = "off"
            /\ u_pc' = "cal"
            /\ UNCHANGED <<nextPage, magMax, magMin, cal_seen>>
    /\ UNCHANGED <<libVars, dbVars, sqlConfig, now, cnmea, configParams, netVars, sock,
                   serialVars, tty, i2cVars, monVars, u_wake, fails, histVars>>

\* The operator touches the screen, clicks or closes the window.
CalTouch ==
    /\ k_pc \in {"countdown", "sampling"}
    /\ k_touch = "none"
    /\ \E e \in AbortEvents : k_touch' = e
    /\ UNCHANGED <<libVars, dbVars, k_pc, progress, k_event, doRun_run, cal_pc, magMax,
                   magMin, cal_seen, sqlConfig, now, cnmea, configParams, netVars, sock,
                   serialVars, tty, i2cVars, monVars, uiVars, budget, histVars>>

\* The countdown loop: SDL_PollEvent, and a second less.
CalCount ==
    /\ k_pc = "countdown"
    /\ IF k_touch # "none"
       THEN k_event' = k_touch /\ k_pc' = "stop" /\ UNCHANGED progress
       ELSE /\ k_event' = "none"
            /\ IF progress - 1 < 0
               THEN k_pc' = "sampling" /\ progress' = cperiod
               ELSE k_pc' = "countdown" /\ progress' = progress - 1
    /\ UNCHANGED <<libVars, dbVars, k_touch, doRun_run, cal_pc, magMax, magMin, cal_seen,
                   sqlConfig, now, cnmea, configParams, netVars, sock, serialVars, tty,
                   i2cVars, monVars, uiVars, budget, histVars>>

\* The first turn of the sampling loop: SDL_CreateThread.
CalSpawn ==
    /\ k_pc = "sampling" /\ cal_pc = "off"
    /\ k_event' = "COGPAGE"
    /\ \E ok \in BOOLEAN :
          IF ok
          THEN /\ cal_pc' = "run"
               /\ magMax' = [a \in Axes |-> -32767]
               /\ magMin' = [a \in Axes |-> 32767]
               /\ cal_seen' = {}
               /\ UNCHANGED k_pc
          ELSE /\ k_pc' = "stop"
               /\ UNCHANGED <<cal_pc, magMax, magMin, cal_seen>>
    /\ UNCHANGED <<libVars, dbVars, progress, k_touch, doRun_run, sqlConfig, now, cnmea,
                   configParams, netVars, sock, serialVars, tty, i2cVars, monVars, uiVars,
                   budget, histVars>>

\* The sampling loop: event.type = COGPAGE, and a second less.
CalSecond ==
    /\ k_pc = "sampling" /\ cal_pc # "off"
    /\ k_event' = "COGPAGE"
    /\ progress' = progress - 1
    /\ k_pc' = IF progress - 1 < 0 THEN "stop" ELSE "sampling"
    /\ UNCHANGED <<libVars, dbVars, k_touch, doRun_run, cal_pc, magMax, magMin, cal_seen,
                   sqlConfig, now, cnmea, configParams, netVars, sock, serialVars, tty,
                   i2cVars, monVars, uiVars, budget, histVars>>

\* doRun.run = 0;
CalStop ==
    /\ k_pc = "stop"
    /\ doRun_run' = FALSE
    /\ k_pc' = "wait"
    /\ UNCHANGED <<libVars, dbVars, progress, k_touch, k_event, cal_pc, magMax, magMin,
                   cal_seen, sqlConfig, now, cnmea, configParams, netVars, sock, serialVars,
                   tty, i2cVars, monVars, uiVars, budget, histVars>>

\* return event.type; and what main does with it.
CalReturn ==
    /\ k_pc = "wait"
    /\ cal_pc # "run"
    /\ k_pc' = "off"
    /\ IF k_event = "SDL_QUIT"
       THEN /\ configParams' = [configParams EXCEPT !.runGps = 0, !.runi2c = 0,
                                                    !.runNet = 0, !.runMon = 0]
            /\ u_pc' = "quit"
            /\ UNCHANGED nextPage
       ELSE /\ u_pc' = "turn"
            /\ \E pg \in (IF k_event = "COGPAGE" THEN {"COGPAGE"} ELSE Pages) : nextPage' = pg
            /\ UNCHANGED configParams
    /\ UNCHANGED <<libVars, dbVars, progress, k_touch, k_event, doRun_run, cal_pc, magMax,
                   magMin, cal_seen, sqlConfig, now, cnmea, netVars, sock, serialVars, tty,
                   i2cVars, monVars, u_wake, fails, budget, histVars>>

higher(mx, raw) == [a \in Axes |-> IF raw[a] > mx[a] THEN raw[a] ELSE mx[a]]
lower(mn, raw) == [a \in Axes |-> IF raw[a] < mn[a] THEN raw[a] ELSE mn[a]]

\* threadCalibrator: one turn of while (doRun->run).
CalSample ==
    /\ cal_pc = "run"
    /\ doRun_run
    /\ \E magRaw \in MagSamples :
          /\ magMax' = higher(magMax, magRaw)
          /\ magMin' = lower(magMin, magRaw)
          /\ cal_seen' = cal_seen \cup {magRaw}
    /\ UNCHANGED <<libVars, dbVars, k_pc, progress, k_touch, k_event, doRun_run, cal_pc,
                   sqlConfig, now, cnmea, configParams, netVars, sock, serialVars, tty,
                   i2cVars, monVars, uiVars, budget, histVars>>

\* threadCalibrator after the loop: the statement is written to SQLCONFIG.
CalEmit ==
    /\ cal_pc = "run"
    /\ ~doRun_run
    /\ sqlConfig' = <<Statement(magMax, magMin)>>
    /\ cal_pc' = "done"
    /\ UNCHANGED <<libVars, dbVars, k_pc, progress, k_touch, k_event, doRun_run, magMax,
                   magMin, cal_seen, now, cnmea, configParams, netVars, sock, serialVars,
                   tty, i2cVars, monVars, uiVars, budget, histVars>>

\* i2cReadHdm: magRaw[i] -= (min + max) / 2, C's division of ints.
cdiv2(n) == IF n < 0 THEN 0 - ((0 - n) \div 2) ELSE n \div 2
hardIron(c, a) == cdiv2(c.min[a] + c.max[a])

\* The calibration page with the I2C collector running and no configuration
\* database.
CalInit ==
    /\ IdleLib
    /\ ProgStart(FALSE, FALSE, TRUE, FALSE, TRUE, NoDb, MaxSend)
CalNext ==
    \/ CalEnter \/ CalTouch \/ CalCount \/ CalSpawn \/ CalSecond \/ CalStop \/ CalReturn
    \/ CalSample \/ CalEmit
    \/ I2cStart \/ I2cTop \/ I2cRead \/ I2cRoll \/ I2cCheck \/ I2cWrite \/ I2cExit
    \/ Quit
SpecCal == CalInit /\ [][CalNext]_vars

\* The same with the collector thread scheduled again and again.
I2cRuns == I2cStart \/ I2cTop \/ I2cRead \/ I2cRoll \/ I2cCheck \/ I2cWrite \/ I2cExit
SpecCalFair == CalInit /\ [][CalNext]_vars /\ WF_vars(I2cRuns)

---------------------------------------------------------------------------
(* Claims *)

\* What C1 says nmeaChecksum accepts: a line with a '*' whose bytes strictly
\* between the leading '$' or '!' and that '*' XOR to the value of the two
\* hex digits after it (read generously: any '*' of the line will do, and a
\* line without the leading character is summed from its first byte).
ClaimAccepts(s) ==
    \E k \in 1..Len(s) :
        /\ s[k] = 42
        /\ Len(s) >= k + 2
        /\ HexVal(s[k + 1]) >= 0
        /\ HexVal(s[k + 2]) >= 0
        /\ PlainXor(s, IF s[1] \in {36, 33} THEN 2 ELSE 1, k - 1)
              = 16 * HexVal(s[k + 1]) + HexVal(s[k + 2])

\* C1: nmeaChecksum returns 0 exactly for the lines with a '*' whose bytes
\* between the leading '$' or '!' and the '*' XOR to the two hex digits
\* that follow the '*'.
C1_ChecksumExact ==
    c_pc = "nmeaChecksum" => ((c_res = 0) <=> ClaimAccepts(c_str))

\* What C3 says getf returns: the text between the n-th comma and the next
\* comma or the end, empty when there are fewer than n commas.
ClaimField(n, s) ==
    LET commas == {i \in 1..Len(s) : s[i] = 44}
        nth    == {i \in commas : Cardinality({j \in commas : j <= i}) = n}
    IN  IF nth = {} THEN <<>>
        ELSE LET a     == MinOf(nth)
                 later == {i \in commas : i > a}
                 b     == IF later = {} THEN Len(s) + 1 ELSE MinOf(later)
             IN  SubSeq(s, a + 1, b - 1)

\* C3: for n >= 1 getf(n, s) returns the n-th comma-delimited field of s,
\* the empty string when s has fewer than n commas, and never fails.
C3_GetfField ==
    (c_pc = "getf" /\ c_pos >= 1) => c_res = ClaimField(c_pos, c_str)

---------------------------------------------------------------------------
(* The two NMEA collectors (Spec) *)

\* The line the network collector hands to nmeaChecksum in its next turn,
\* and the line the serial collector does.
NetLineIn == IF Len(nmeastr_p2) > 0 THEN nmeastr_p2 ELSE Head(sock)
SerialLineIn == SubSeq(Head(tty), 1, Len(Head(tty)) - 1)

NetHandlesRejected ==
    /\ n_pc = "wait" /\ n_pc' = "loop"
    /\ nmeaChecksum(NetLineIn, TRUE, Len(NetLineIn)).rv # 0
SerialHandlesRejected ==
    /\ s_pc = "read" /\ s_pc' = "top" /\ tty # <<>>
    /\ nmeaChecksum(SerialLineIn, FALSE, Len(SerialLineIn)).rv # 0

\* C2: a turn in which the network collector or the serial collector
\* handles a line that nmeaChecksum rejects leaves every value and every
\* timestamp of cnmea as it was.
C2_RejectedLineKeepsBlackboard ==
    [][(NetHandlesRejected \/ SerialHandlesRejected) => cnmea' = cnmea]_vars

\* Both collectors have dropped a line.
C2_Witness == rejected = {"net", "serial"}

\* C5: a turn of the serial collector's loop that starts while
\* now - net_ts <= S_TIMEOUT ends in a sleep (or the onHold pause, or the
\* exit on runGps = 0) and back at the top of the loop: nothing is read
\* from the device and no field of cnmea is written.
C5_SerialDefersToNetwork ==
    [][ /\ (s_pc = "top" /\ now - cnmea.net_ts <= S_TIMEOUT /\ s_pc' # "top")
            => /\ s_pc' \in {"defer", "hold", "exit"}
               /\ cnmea' = cnmea /\ tty' = tty
        /\ (s_pc \in {"defer", "hold"} /\ s_pc' # s_pc)
            => /\ s_pc' = "top"
               /\ cnmea' = cnmea /\ tty' = tty ]_vars

\* The serial collector sleeps with a line of the device waiting, the
\* network data being fresh.
C5_Witness ==
    s_pc = "defer" /\ now - cnmea.net_ts <= S_TIMEOUT /\ tty # <<>>

\* C6: while the position the network collector wrote is within the
\* freshness window, the serial collector does not overwrite it.
C6_NetPositionStays ==
    [][(lastPos = "net" /\ now - cnmea.gll_ts <= S_TIMEOUT)
          => lastPos' # "serial"]_vars

---------------------------------------------------------------------------
(* The network collector and the I2C collector (SpecHdm) *)

\* C4: an I2C poll whose time ct lies in [T, T + S_TIMEOUT], T being the
\* time an NMEA collector wrote the heading, leaves cnmea.hdm and
\* cnmea.hdm_i2cts as they were (the poll made its test after that NMEA
\* write: hdm_ts is still what the test read).
C4_PollInWindowKeepsHeading ==
    [][(/\ i_pc = "whdm" /\ i_pc' = "top"
        /\ hdmAt > 0 /\ i_seen = cnmea.hdm_ts
        /\ i_ct >= hdmAt /\ i_ct - hdmAt <= S_TIMEOUT)
          => /\ cnmea'.hdm = cnmea.hdm
             /\ cnmea'.hdm_i2cts = cnmea.hdm_i2cts]_vars

---------------------------------------------------------------------------
(* The network collector on its own (SpecNet) *)

StampFields ==
    {"rmc_ts", "rmc_gps_ts", "roll_i2cts", "stw_ts", "dbt_ts", "mtw_ts", "hdm_ts",
     "hdm_i2cts", "vwr_ts", "vwt_ts", "gll_ts", "net_ts", "volt_ts", "curr_ts",
     "temp_ts"}

\* The freshness test of the consumers.
Fresh(t, stamp) == t - stamp <= S_TIMEOUT

\* C7: a field written at the instant T is stamped so that it reads as fresh
\* at T + 3 and as stale at T + 5.
C7_FreshAfter3StaleAfter5 ==
    [][\A f \in StampFields :
          cnmea'[f] # cnmea[f]
             => Fresh(now + 3, cnmea'[f]) /\ ~Fresh(now + 5, cnmea'[f])]_vars

\* s cut at every CR LF: the sentences of s, and what follows the last
\* CR LF if anything does.
CrlfAt(s) == FirstOr({k \in 1..(Len(s) - 1) : s[k] = 13 /\ s[k + 1] = 10}, 0)
RECURSIVE SplitCRLF(_)
SplitCRLF(s) ==
    IF s = <<>> THEN <<>>
    ELSE IF CrlfAt(s) = 0 THEN <<s>>
    ELSE <<SubSeq(s, 1, CrlfAt(s) - 1)>> \o SplitCRLF(SubSeq(s, CrlfAt(s) + 2, Len(s)))

\* The pieces of the chunks of log, in the order of arrival; the bytes of
\* the chunks of log, in that order.
RECURSIVE PiecesOf(_)
PiecesOf(log) == IF log = <<>> THEN <<>> ELSE SplitCRLF(Head(log)) \o PiecesOf(Tail(log))
RECURSIVE StreamOf(_)
StreamOf(log) == IF log = <<>> THEN <<>> ELSE Head(log) \o StreamOf(Tail(log))

\* The lines handed to nmeaChecksum so far, in order.
LinesHandled == [k \in 1..Len(netLog) |-> netLog[k].line]

EndsWithCRLF(s) == Len(s) >= 2 /\ s[Len(s) - 1] = 13 /\ s[Len(s)] = 10

\* C9: a sentence whose head ends one receive and whose tail starts the
\* next is handled once and as a whole: when nothing is carried over and
\* the bytes received so far end a sentence, the lines handled are the
\* sentences of the byte stream.
C9_SplitSentenceReassembled ==
    (nmeastr_p2 = <<>> /\ EndsWithCRLF(StreamOf(recvLog)))
        => LinesHandled = SplitCRLF(StreamOf(recvLog))

\* C10: the sentences of every receive are handled once each and in the
\* order of arrival, a rejected one included, before anything newer is
\* received: the lines handled so far, then the pieces still held in
\* nmeastr_p2, are the pieces of the chunks received so far.
C10_EverySentenceOnceInOrder ==
    LinesHandled \o SplitCRLF(nmeastr_p2) = PiecesOf(recvLog)

\* One receive brought a rejected sentence and a good one after it; both
\* have been handled, the second accepted.
C10_Witness ==
    /\ Len(recvLog) = 1 /\ Len(SplitCRLF(recvLog[1])) = 2
    /\ Len(netLog) = 2
    /\ netLog[1].rv = 1 /\ netLog[2].rv = 0

---------------------------------------------------------------------------
(* The network collector and the rendering loop (SpecUI) *)

\* C8: a turn of a rendering loop writes no member of cnmea.
C8_ConsumersReadOnly ==
    [][(u_pc = "turn" /\ u_pc' = "drawn") => cnmea' = cnmea]_vars

---------------------------------------------------------------------------
(* i2cReadHdm (SpecImu) *)

\* The difference of two headings, in tenths.
Apart(a, b) == IF a >= b THEN a - b ELSE b - a

\* C11: a call of i2cReadHdm that computes a heading within RDEV of the last
\* accepted heading returns the last accepted heading again and keeps it,
\* whatever that heading is, 0 included.
C11_DeadbandKeepsHeading ==
    [][(h_acc /\ h_new' >= 0 /\ sampleCnt >= 5 /\ Apart(h_new', curHeading) <= RDEV)
          => curHeading' = curHeading /\ h_ret' = roundf(curHeading)]_vars

---------------------------------------------------------------------------
(* The calibration page (SpecCal) *)

Seen(a) == {raw[a] : raw \in cal_seen}

\* C12: when threadCalibrator has read at least one sample and has emitted
\* its statement, the maximum and the minimum in it are, on every axis, the
\* largest and the smallest sample it read, and the offset i2cReadHdm
\* subtracts with that profile is (min + max) / 2 of them.
C12_EmittedExtremaAreTrue ==
    (cal_pc = "done" /\ cal_seen # {} /\ sqlConfig # <<>>)
        => \A a \in Axes :
              /\ RowOf(sqlConfig[1]).max[a] = MaxOf(Seen(a))
              /\ RowOf(sqlConfig[1]).min[a] = MinOf(Seen(a))
              /\ hardIron(RowOf(sqlConfig[1]), a) = cdiv2(MinOf(Seen(a)) + MaxOf(Seen(a)))

\* C13: once the operator has sent a touch, a click or a quit event during a
\* calibration run, in the countdown or in the sampling window, the run
\* does not go on (no further second is counted, the loop is left) and no
\* statement is written to SQLCONFIG.
C13_AbortEndsRunEmitsNothing ==
    [][(k_touch # "none" /\ k_pc # "off")
          => /\ progress' = progress
             /\ k_pc \in {"countdown", "sampling"} => k_pc' \in {k_pc, "stop"}
             /\ sqlConfig' = sqlConfig \/ sqlConfig' = <<>>]_vars

I2cRunning == i_pc \in {"top", "delay", "hold", "roll", "chk", "whdm"}
Emitted == [max |-> magMax, min |-> magMin]

\* C14: when threadCalibrator has emitted a profile while the I2C collector
\* is running, the collector comes to use that profile (or has left its
\* loop, or a newer calibration run has begun).
C14_EmittedProfilePickedUp ==
    (cal_pc = "done" /\ I2cRunning) ~> (calib = Emitted \/ ~I2cRunning \/ cal_pc # "done")

---------------------------------------------------------------------------
(* The I2C collector (SpecI2c) *)

\* C15: when i2cinit has found neither chip variant, it has reported a
\* failure, the I2C collector has ended without entering its loop, and it
\* has written neither heading nor roll.
C15_NoChipNoPipeline ==
    (chip = "none" /\ i_pc \notin {"off", "new"})
        => /\ configParams.i2cFile < 0
           /\ i_pc = "done"
           /\ cnmea.hdm_i2cts = 0 /\ cnmea.roll_i2cts = 0

\* C16: a successful heading read resets the collector's count of failed
\* reads, so that only a run of consecutive failures can exceed the retry
\* budget; and the step that aborts the loop leaves the run flags of the
\* other collectors alone.
C16_SuccessResetsRetry ==
    [][/\ (i_pc = "delay" /\ i_pc' = "roll") => i_retry' = 0
       /\ (i_pc = "delay" /\ i_pc' = "exit")
             => /\ i_retry > 3
                /\ configParams'.runGps = configParams.runGps
                /\ configParams'.runNet = configParams.runNet]_vars

---------------------------------------------------------------------------
(* The two NMEA collectors: failures (Spec, SpecNet) *)

\* C17: while runGps is set the serial collector has not ended: neither a
\* failure to open or configure the device nor a failed read ends it.
C17_SerialFailuresNotFatal == configParams.runGps = 1 => s_pc # "done"

\* C18: the connect loop is bounded: a failed SDLNet_TCP_Open is followed by
\* the delay and another attempt only while fewer than LogCap attempts have
\* failed in a row, after which the connect cycle ends; and no failure to
\* resolve or to connect touches the run flags of the process.
C18_ConnectAttemptsBounded ==
    [][/\ (n_pc = "open" /\ n_pc' = "openwait") => retry < LogCap
       /\ (n_pc \in {"new", "open"} /\ n_pc' # n_pc)
             => /\ configParams'.runGps = configParams.runGps
                /\ configParams'.runi2c = configParams.runi2c
                /\ configParams'.runNet = configParams.runNet]_vars

\* C19: in the streaming loop a read that delivers data resets the retry
\* counters retry and rretry, and the loop is left for a teardown only on
\* stop, on hold, or when one of the two counters has passed 10.
C19_DataResetsRetryCounters ==
    [][/\ (n_pc = "wait" /\ n_pc' = "loop") => (retry' = 0 /\ rretry' = 0)
       /\ (n_pc \in {"loop", "wait"} /\ n_pc' = "teardown")
             => \/ configParams.runNet = 0 \/ configParams.onHold # 0
                \/ retry' > 10 \/ rretry' > 10]_vars

---------------------------------------------------------------------------
(* The collectors when main stops them (SpecStopFair) *)

Stopped ==
    configParams.runGps = 0 /\ configParams.runi2c = 0 /\ configParams.runNet = 0

\* C20: once main has cleared runGps, runi2c and runNet, every collector
\* leaves its loop and numThreads comes down to 0, wherever the collectors
\* were, every delay and every poll coming to its end.
C20_StoppedCollectorsEnd ==
    (Stopped /\ now <= T0 + Horizon) ~> (configParams.numThreads = 0)

---------------------------------------------------------------------------
(* The calibration page, continued (SpecCal) *)

\* C30: in every statement threadCalibrator has written, the minimum is at
\* most the maximum on each axis, however the thread was scheduled.
C30_EmittedMinAtMostMax ==
    sqlConfig # <<>>
        => \A a \in Axes : RowOf(sqlConfig[1]).min[a] <= RowOf(sqlConfig[1]).max[a]

---------------------------------------------------------------------------
(* dms2dd (SpecCodec) *)

\* The claim's reading of a coordinate: a latitude (hint 'm') is in range
\* when it is within 90 degrees of zero, a longitude (hint 'p') within 180;
\* the DDDMM number d*100 + m stands for d degrees m minutes.
DmsLimit(val) == IF At(val, 0) = 109 THEN MAX_LATITUDE * 100 ELSE MAX_LONGITUDE * 100
DmsOutside(coordinates, val) ==
    coordinates > DmsLimit(val) \/ coordinates < 0 - DmsLimit(val)

\* C22: dms2dd returns 0 for every latitude-hinted coordinate outside +-90
\* degrees and every longitude-hinted one outside +-180 degrees; for an
\* in-range DDDMM coordinate it returns degrees + minutes/60.
C22_Dms2ddRangeChecked ==
    c_pc = "dms2dd" =>
        /\ DmsOutside(c_coord, c_str) => c_res = 0
        /\ (~DmsOutside(c_coord, c_str) /\ c_coord >= 0) =>
              c_res = 60 * (c_coord \div 100) + (c_coord % 100)

---------------------------------------------------------------------------
(* The heading's range (SpecImu) *)

\* C26: every heading i2cReadHdm computes, once declval and coffset are
\* added to the atan2 angle and the conversion has run, is at least 0 and
\* below 360 degrees.
C26_HeadingInCircle ==
    h_new # -1 => (h_new >= 0 /\ h_new < Circle)

---------------------------------------------------------------------------
(* Bus errors in the I2C collector's turn (SpecI2c) *)

\* A step of the I2C collector in which a sensor read met a bus error.
I2cReadFailed == i_pc \in {"delay", "roll"} /\ i_pc' # i_pc /\ budget' < budget

\* C25: a bus error during a sensor read of i2cReadHdm or i2cReadRoll comes
\* back as an error, and the collector stores no heading and no roll computed
\* from the failed read: the step leaves cnmea.hdm and cnmea.roll as they
\* were.
C25_FailedReadStoresNothing ==
    [][I2cReadFailed => (cnmea'.hdm = cnmea.hdm /\ cnmea'.roll = cnmea.roll)]_vars

---------------------------------------------------------------------------
(* Precedence among the network collector's sentences (SpecPrec) *)

\* The network collector's turn handles an accepted sentence with this tag.
NetHandles(nsent) ==
    /\ n_pc = "wait" /\ n_pc' = "loop"
    /\ nmeaChecksum(NetLineIn, TRUE, Len(NetLineIn)).rv = 0
    /\ NMPARSE(nmeaChecksum(NetLineIn, TRUE, Len(NetLineIn)).p1, nsent)

\* C27: a VTG sentence handled while an RMC sentence, whatever its speed,
\* was received within the last S_TIMEOUT/2 seconds leaves cnmea.rmc and
\* cnmea.hdm as they were.
C27_VtgYieldsToRmc ==
    [][(NetHandles(VTG) /\ now - heardAt.rmc <= HalfTimeout)
          => (cnmea'.rmc = cnmea.rmc /\ cnmea'.hdm = cnmea.hdm)]_vars

\* C28: a DBT sentence handled while a DPT sentence updated the depth within
\* the last S_TIMEOUT/2 seconds leaves cnmea.dbt as it was, and a DPT
\* sentence always stores its depth with the turn's time.
C28_DbtYieldsToDpt ==
    [][/\ (NetHandles(DBT) /\ now - heardAt.dpt <= HalfTimeout)
            => cnmea'.dbt = cnmea.dbt
       /\ NetHandles(DPT)
            => (cnmea'.dbt = 60 /\ cnmea'.dbt_ts = ts)]_vars

\* C29: a VWR sentence handled while an MWV sentence, relative or true, was
\* received within the last S_TIMEOUT/2 seconds leaves vwra, vwrs, vwrd and
\* vwr_ts as they were.
C29_VwrYieldsToMwv ==
    [][(NetHandles(VWR) /\ now - heardAt.mwv <= HalfTimeout)
          => /\ cnmea'.vwra = cnmea.vwra /\ cnmea'.vwrs = cnmea.vwrs
             /\ cnmea'.vwrd = cnmea.vwrd /\ cnmea'.vwr_ts = cnmea.vwr_ts]_vars


\* The value fields the network collector writes, each with the timestamp
\* that guards it.
Guarded ==
    { <<"rmc", "rmc_ts">>, <<"hdm", "hdm_ts">>, <<"stw", "stw_ts">>,
      <<"dbt", "dbt_ts">>, <<"mtw", "mtw_ts">>, <<"vwra", "vwr_ts">>,
      <<"vwta", "vwt_ts">>, <<"volt", "volt_ts">>, <<"temp", "temp_ts">> }

\* C24: a turn of the network collector that stores a new value in a field
\* stores the turn's time in that field's timestamp, so no value is newer
\* than its timestamp.
C24_ValueComesWithStamp ==
    [][n_pc = "wait" =>
          \A g \in Guarded : cnmea'[g[1]] # cnmea[g[1]] => cnmea'[g[2]] = ts]_vars

---------------------------------------------------------------------------
(* The orchestrator's wait on numThreads (SpecUI) *)

\* C21: once main has passed its wait on numThreads, no collector that was
\* started is still running, one that has not yet counted itself included.
C21_PastWaitNoCollectorRuns ==
    u_pc = "closed" => n_pc \in {"off", "done"}


\* C23: a collector stores a field's value before the field's timestamp, so
\* the blackboard never shows the timestamp of a turn whose value is still
\* to be stored: while the I2C collector has this turn's roll to store,
\* roll_i2cts is not yet this turn's time.
C23_ValueStoredBeforeStamp ==
    i_pc = "roll" => cnmea.roll_i2cts # i_ct

---------------------------------------------------------------------------
(* net_ts and the serial collector (Spec) *)

\* C32: the serial GPS collector leaves cnmea.net_ts as it was for every
\* sentence it processes; only the network collector advances it.
C32_SerialLeavesNetTs ==
    [][(s_pc = "read" /\ s_pc' # s_pc) => cnmea'.net_ts = cnmea.net_ts]_vars

---------------------------------------------------------------------------
(* The calibration profile of a fusion step (SpecI2c) *)

\* C31: when the calibration cannot be loaded from the configuration
\* database (it did not open, or it holds no row), every call of i2cReadHdm
\* is made with the default calibration constants.
C31_DefaultsWhenNoDatabase ==
    [][(i_pc = "delay" /\ i_pc' # i_pc /\ (~conn \/ dbCalib.rows = <<>>))
          => calib' = DefaultCalib]_vars

---------------------------------------------------------------------------
(* The I2C collector's check and write of the heading (SpecHdm) *)

\* C33: in every interleaving, while hdm_ts is within S_TIMEOUT of now,
\* cnmea.hdm is the heading an NMEA collector wrote, not one the I2C
\* collector stored over it.
C33_FreshHeadingIsNmea ==
    (cnmea.hdm_ts > 0 /\ now - cnmea.hdm_ts <= S_TIMEOUT)
        => cnmea.hdm \notin I2cHeadings

---------------------------------------------------------------------------
(* The heading the I2C collector publishes (SpecPoll) *)

\* C39: the I2C collector stores cnmea.hdm and hdm_i2cts only with a heading
\* that comes from a successful sensor read: before i2cReadHdm has computed
\* its first fused sample, hdm_i2cts is not set.
C39_NoHeadingBeforeFirstSample ==
    cnmea.hdm_i2cts > 0 => h_acc

\* C36: the string a collector takes from getf is the field of its own
\* sentence at its own position, also when the other collector is inside
\* getf at the same time.
C36_GetfOwnArguments ==
    \A w \in Callers :
        caller[w].pc = "done" => caller[w].got = getf(caller[w].pos, caller[w].str)

---------------------------------------------------------------------------
(* The life of the collector threads: openSDL2 creates them, each counts  *)
(* itself in numThreads, doSubtask stops them and starts them again.      *)
(* A thread is <<collector, n>>, created by the n-th run of openSDL2.     *)
(* The network collector and the I2C collector are configured, the GPS    *)
(* device is "none".                                                     *)

RunFlag(c) == IF c = "serial" THEN "runGps" ELSE IF c = "i2c" THEN "runi2c" ELSE "runNet"

\* Everything the threads' bookkeeping does not touch.
lifeRest == <<codecVars, imuVars, busVars, now, cnmea, netVars, sock, serialVars, tty, i2cVars,
              monVars, uiVars, budget, histVars, calVars, dbVars>>

\* openSDL2: SDL_CreateThread for every collector whose run flag is set.
Created(g) ==
    [t \in Collectors \X Gens |->
        IF t[2] = g /\ configParams'[RunFlag(t[1])] = 1
        THEN [pc |-> "init", reg |-> 0] ELSE threads[t]]

LifeInit ==
    /\ IdleCodec /\ IdleImu /\ IdleBus
    /\ ProgInit(TRUE, FALSE, TRUE, FALSE, FALSE)
    /\ threads = [t \in Collectors \X Gens |->
                     IF t[2] = 1 /\ configParams[RunFlag(t[1])] = 1
                     THEN [pc |-> "init", reg |-> 0] ELSE NoThread]
    /\ d_pc = "page" /\ runners = NoRunners /\ gen = 1

\* The start of a collector up to its numThreads++: open and portConfigure,
\* i2cinit, SDLNet_Init and SDLNet_ResolveHost succeed, and the thread loads
\* numThreads.
ThreadEnter(t) ==
    /\ threads[t].pc = "init"
    /\ threads' = [threads EXCEPT ![t] = [pc |-> "inc", reg |-> configParams.numThreads]]
    /\ UNCHANGED <<d_pc, runners, gen, configParams, lifeRest>>

\* One of them fails: return 0.
ThreadFail(t) ==
    /\ threads[t].pc = "init"
    /\ threads' = [threads EXCEPT ![t] = [pc |-> "gone", reg |-> 0]]
    /\ UNCHANGED <<d_pc, runners, gen, configParams, lifeRest>>

\* numThreads++, the store.
ThreadCount(t) ==
    /\ threads[t].pc = "inc"
    /\ configParams' = Conf("numThreads", threads[t].reg + 1)
    /\ threads' = [threads EXCEPT ![t].pc = "run"]
    /\ UNCHANGED <<d_pc, runners, gen, lifeRest>>

\* The collector leaves its loop, its run flag cleared (i2cCollector also on
\* its fourth failed read), and loads numThreads for numThreads--.
ThreadLeave(t) ==
    /\ threads[t].pc = "run"
    /\ configParams[RunFlag(t[1])] = 0 \/ t[1] = "i2c"
    /\ threads' = [threads EXCEPT ![t] = [pc |-> "dec", reg |-> configParams.numThreads]]
    /\ UNCHANGED <<d_pc, runners, gen, configParams, lifeRest>>

\* numThreads--, the store, and return 0.
ThreadUncount(t) ==
    /\ threads[t].pc = "dec"
    /\ configParams' = Conf("numThreads", threads[t].reg - 1)
    /\ threads' = [threads EXCEPT ![t].pc = "gone"]
    /\ UNCHANGED <<d_pc, runners, gen, lifeRest>>

\* doSubtask: runners[] = the run flags; the run flags = 0.
SubtaskStop ==
    /\ d_pc = "page"
    /\ gen < MaxGen
    /\ runners' = [c \in Collectors |-> configParams[RunFlag(c)]]
    /\ configParams' = [configParams EXCEPT !.runGps = 0, !.runi2c = 0, !.runNet = 0]
    /\ d_pc' = "wait"
    /\ UNCHANGED <<threads, gen, lifeRest>>

\* while(configParams->numThreads) SDL_Delay(100); then closeSDL2, fork and
\* waitpid.
SubtaskWait ==
    /\ d_pc = "wait"
    /\ configParams.numThreads = 0
    /\ d_pc' = "sub"
    /\ UNCHANGED <<threads, runners, gen, configParams, lifeRest>>

\* The subtask has ended: the run flags = runners[], openSDL2.
SubtaskResume ==
    /\ d_pc = "sub"
    /\ configParams' = [configParams EXCEPT !.runGps = runners["serial"],
                                            !.runi2c = runners["i2c"],
                                            !.runNet = runners["net"]]
    /\ gen' = gen + 1
    /\ threads' = Created(gen + 1)
    /\ d_pc' = "page"
    /\ UNCHANGED <<runners, lifeRest>>

LifeNext ==
    \/ \E t \in Collectors \X Gens : ThreadEnter(t)
    \/ \E t \in Collectors \X Gens : ThreadFail(t)
    \/ \E t \in Collectors \X Gens : ThreadCount(t)
    \/ \E t \in Collectors \X Gens : ThreadLeave(t)
    \/ \E t \in Collectors \X Gens : ThreadUncount(t)
    \/ SubtaskStop
    \/ SubtaskWait
    \/ SubtaskResume
SpecLife == LifeInit /\ [][LifeNext]_vars

\* The threads that have done their numThreads++ and not their numThreads--.
Counted == {t \in Collectors \X Gens : threads[t].pc \in {"run", "dec"}}

\* C34: numThreads is the number of collectors that have done their start-up
\* increment and not yet their exit decrement.
C34_NumThreadsCountsCollectors ==
    configParams.numThreads = Cardinality(Counted)

\* C37: through the stop and restart of doSubtask, at most one instance of
\* each collector is in its loop.
C37_OneInstancePerCollector ==
    \A c \in Collectors :
        Cardinality({g \in Gens : threads[<<c, g>>].pc = "run"}) <= 1

---------------------------------------------------------------------------
(* The bus handle i2cFile, read by i2cCollector (i2cReadHdm, i2cReadRoll)  *)
(* and, during a calibration, by threadCalibrator (i2creadMAG) as well:   *)
(* doCalibration hands it configParams->i2cFile and i2cCollector runs on. *)
(* An address is named by the macro the code selects it with, without the *)
(* chip variant's prefix.                                                  *)

\* What i2cCollector reads in one turn that computes a heading: readMAG and
\* readACC in i2cReadHdm, readACC and readGYR in i2cReadRoll.
CollectorReads == <<"MAG_ADDRESS", "ACC_ADDRESS", "ACC_ADDRESS", "GYR_ADDRESS">>

Wanted(r) ==
    IF r = "threadCalibrator" THEN "MAG_ADDRESS"
    ELSE CollectorReads[readers[r].at + 1]

BusInit ==
    /\ IdleCodec /\ IdleImu /\ IdleLife
    /\ ProgInit(FALSE, FALSE, TRUE, FALSE, FALSE)
    /\ slave = "none"
    /\ readers = [r \in Readers |->
                     [pc |-> "select", at |-> 0, addr |-> "none", got |-> "none"]]
    /\ idx = NoIndex

busRest == <<codecVars, imuVars, lifeVars, progVars>>

\* selectDevice(file, addr): ioctl(file, I2C_SLAVE, addr).
SelectDevice(r) ==
    /\ readers[r].pc = "select"
    /\ slave' = Wanted(r)
    /\ readers' = [readers EXCEPT ![r].pc = "read", ![r].addr = Wanted(r)]
    /\ UNCHANGED <<idx, busRest>>

\* readBlock(...): i2c_smbus_read_i2c_block_data(file, ...) reads from the
\* address the handle has selected.
ReadBlock(r) ==
    /\ readers[r].pc = "read"
    /\ readers' = [readers EXCEPT
                      ![r].pc = "select", ![r].got = slave,
                      ![r].at = IF r = "i2cCollector"
                                THEN (@ + 1) % Len(CollectorReads) ELSE @]
    /\ UNCHANGED <<slave, idx, busRest>>

BusNext == \E r \in Readers : SelectDevice(r) \/ ReadBlock(r)
SpecBus == BusInit /\ [][BusNext]_vars

\* C35: every block a reader has read came from the address that reader
\* selected for it.
C35_ReadFromOwnAddress ==
    \A r \in Readers :
        (readers[r].pc = "select" /\ readers[r].got # "none")
            => readers[r].got = readers[r].addr

---------------------------------------------------------------------------
(* The indexing of the collectors' buffers, by the numbers: what one read *)
(* returned, and the indices the code then touches.                        *)

\* char buffer[512]; in threadSerial, static char nmeastr_p1[2048]; in
\* nmeaNetCollector.
SerialBuf == 512
NetBuf == 2048
\* How far past an unterminated buffer strlen may find its NUL.
Beyond == 2

BufSize(b) == IF b = "buffer" THEN SerialBuf ELSE NetBuf

\* A read: cnt bytes; at is where the first NUL byte (serial) or the first
\* line end (network) of the data is, -1 if it has none; more says that the
\* byte two past the line end is data and not NUL.
SerialReads ==
    { [buf |-> "buffer", pc |-> "read", cnt |-> c, at |-> z, more |-> FALSE,
       lo |-> 0, hi |-> 0] : c \in 0..SerialBuf, z \in {-1, 0} }
NetReads ==
    { [buf |-> "nmeastr_p1", pc |-> "read", cnt |-> c,
       at |-> IF k = 0 THEN -1 ELSE c - k, more |-> m, lo |-> 0, hi |-> 0] :
         c \in (NetBuf - 40)..NetBuf, k \in {0, 1, 2, 3, 20}, m \in BOOLEAN }

IndexInit ==
    /\ IdleCodec /\ IdleImu /\ IdleLife
    /\ ProgInit(TRUE, TRUE, FALSE, FALSE, FALSE)
    /\ slave = "none" /\ readers = [r \in Readers |-> NoReader]
    /\ idx \in SerialReads \cup NetReads

\* strlen(buffer) after memset(buffer, 0, ...) and a read of cnt bytes: the
\* first NUL of the data, else the NUL the memset left at buffer[cnt], else,
\* the buffer full, whatever lies behind it.
Strlens(r) ==
    IF r.at >= 0 /\ r.at < r.cnt THEN {r.at}
    ELSE IF r.cnt < SerialBuf THEN {r.cnt}
    ELSE SerialBuf..(SerialBuf + Beyond)

\* threadSerial: buffer[strlen(buffer)-1] = '\0'; strlen reads up to its NUL.
SerialTerminate ==
    /\ idx.buf = "buffer" /\ idx.pc = "read"
    /\ \E len \in Strlens(idx) :
          idx' = [idx EXCEPT !.pc = "done",
                             !.lo = IF len = 0 THEN -1 ELSE 0,
                             !.hi = len]
    /\ UNCHANGED <<slave, readers, busRest>>

\* Whether str_p1[i+2] is not NUL: a byte of the data; behind the data the
\* NUL of memset(nmeastr_p1, 0, ...); behind the buffer, either.
MoreAt(r) ==
    IF r.at + 2 < r.cnt THEN r.more
    ELSE IF r.at + 2 < NetBuf THEN FALSE
    ELSE r.more

\* nmeaChecksum(nmeastr_p1, nmeastr_p2, cnt): the loop reads str_p1[0..i];
\* at a line end at i, strnlen(&str_p1[i+2], cnt-i) reads str_p1[i+2], and if
\* that is not NUL memcpy copies the cnt-i bytes from there: up to cnt+1.
ChecksumIndex ==
    /\ idx.buf = "nmeastr_p1" /\ idx.pc = "read"
    /\ idx' = [idx EXCEPT !.pc = "done",
                          !.hi = IF idx.at < 0 THEN idx.cnt - 1
                                 ELSE IF MoreAt(idx) THEN idx.cnt + 1
                                 ELSE idx.at + 2]
    /\ UNCHANGED <<slave, readers, busRest>>

IndexNext == SerialTerminate \/ ChecksumIndex
SpecIndex == IndexInit /\ [][IndexNext]_vars

\* C38: every index the collectors touch after a read is inside the buffer.
C38_IndexInsideBuffer ==
    idx.pc = "done" => (idx.lo >= 0 /\ idx.hi < BufSize(idx.buf))

====
